---- MODULE Spec2Model ----
(***************************************************************************)
(* Navigation state machine of the MentraOS blind-navigation app.          *)
(*                                                                         *)
(* One user session: the NavigationManager object created by onSession,    *)
(* the command layer of index.ts that drives it, and the event loop that   *)
(* carries its timers, delayed callbacks and unresolved promises.          *)
(*                                                                         *)
(* Geometry.  Positions are points of one meridian, given in metres north  *)
(* of a reference point; on a meridian the haversine distance is the       *)
(* absolute difference of the two positions.                               *)
(*                                                                         *)
(* Optional values (`x?: T`) are sequences: <<>> is undefined, <<v>> is v. *)
(***************************************************************************)
EXTENDS Integers, Sequences, FiniteSets, TLC

(***************************************************************************)
(* Bounds of the model.                                                    *)
(***************************************************************************)
\* live location handlers whose unsubscribe function the manager has lost
MaxOrphanHandlers == 1
\* delayed startLocationTracking callbacks (setTimeout 100 ms) not yet run
MaxTimeouts == 1
\* off-route recalculations whose route request is unresolved
MaxRecalculations == 1
\* the same, where recalculations that overlap are followed
MaxPending == 2
\* value at which the consecutive off-route counter is no longer followed
MaxOffRouteCount == 4
\* scene-context refreshes counted at one await of updateAiContext: a count
\* at the bound stands for that many or more
MaxAiRequests == 1
\* navigate commands in flight, where commands come one after the other
MaxNavigations == 1
\* navigate commands in flight, where they overlap (the tool call and the
\* transcription handler answer the same utterance)
MaxOverlap == 2
\* waypoints added to a navigation that are remembered: a list of that
\* length stands for that many or more
MaxWaypointsAdded == 1
\* length at which a run of deviating ticks is no longer followed: a run at
\* the bound stands for that many ticks or more
MaxDeviatingRun == 4
\* announcements counted for one instruction: the bound stands for that many
\* or more
MaxAnnouncements == 2
\* full turns, either way, of the bearings getDirectionalArrow is followed on
MaxTurns == 2
\* legs of a route, and steps of a leg, where generateInstructions is followed
MaxLegs == 3
MaxSteps == 2
\* distance to the turn, in metres, up to which generateVoiceAnnouncement is
\* followed: past the largest threshold and the 10 m around it
MaxDistance == 2020

(***************************************************************************)
(* Program constants.                                                      *)
(***************************************************************************)
ROUTE_DEVIATION_THRESHOLD == 50
MAX_OFF_ROUTE_CHECKS == 3
DESTINATION_THRESHOLD == 30
\* calculateDistanceToCurrentInstruction: the placeholder distance to the turn
DistanceToTurn == 100
\* lastAnnouncedDistance before any announcement
NotAnnounced == -1
\* 360 degrees; bearings are in tenths of a degree
FullTurn == 3600

(***************************************************************************)
(* Input domains.                                                          *)
(***************************************************************************)
\* positions reported by the location source
Locs == {50, 101, 111}
\* what the geocoder resolves a destination address to
Dests == {141}
\* what the geocoder resolves a waypoint address to
WaypointLocs == {50}
\* legs (number of steps of each) of a route answered by Mapbox or ORS
ProviderLegs == {<<1>>}
\* legs of generateDemoRoute: one leg of three steps
DemoLegs == <<3>>
\* a directions provider with no API key
Unconfigured == [kind |-> "unconfigured", legs |-> <<>>]
\* outcome of one directions provider for one request
ProviderOutcomes ==
    {Unconfigured, [kind |-> "throws", legs |-> <<>>]}
        \cup {[kind |-> "route", legs |-> l] : l \in ProviderLegs}
\* outcome of OpenRouteService where its route is told from Mapbox's
OrsOutcomes ==
    {Unconfigured, [kind |-> "throws", legs |-> <<>>], [kind |-> "route", legs |-> <<2>>]}
\* outcome of Mapbox while routes of different lengths replace one another:
\* no API key, a route of one step, or a route of no step at all
ReplacementOutcomes ==
    {Unconfigured} \cup {[kind |-> "route", legs |-> l] : l \in {<<>>, <<1>>}}
\* positions reported while addWaypoint and updateSettings are followed
CommandLocs == {101, 111}
\* positions reported while the route requests of a navigation are followed:
\* one within the deviation threshold of the start, one beyond it
ProviderLocs == {50, 101}
\* positions reported while recalculations that overlap are followed: one
\* within the deviation threshold of the start, two beyond it
PendingLocs == {50, 60, 101}
\* new Date() of a location update
Timestamps == {1}
\* announcement_frequency values of the settings record
Frequencies == {2}
\* effect of session.location.unsubscribeFromStream() on handlers other than
\* the one just cancelled: the stream is dropped for all of them, or not
SdkUnsubscribe == {"all", "none"}
\* where the user is when a navigate command is given
StartLocs == {0}
\* what updateSettings is called with
SettingsUpdates == {[voice_guidance |-> v, announcement_frequency |-> f] :
                        v \in BOOLEAN, f \in Frequencies}
\* what detectStoreSigns answers: the signs it detected, or, when the
\* Roboflow request fails, its record of the error (it throws nothing)
DetectionResults == {[detected |-> TRUE, details |-> "detections"],
                     [detected |-> FALSE, details |-> "Detection error"]}
\* what analyzeStreetViewImage answers: the description, or, when the Gemini
\* request fails, its text of the error (it throws nothing)
Analyses == {"analysis", "AI analysis error"}

\* the announcement_frequency values generateVoiceAnnouncement is followed on:
\* the five of the scale, and one on either side of it
AnnouncementFrequencies == 0..6
\* the distances to the turn it is followed on
Distances == 0..MaxDistance

\* the bearings getDirectionalArrow is followed on, negative ones and ones
\* of a full turn or more among them
Bearings == (0 - MaxTurns * FullTurn)..(MaxTurns * FullTurn)
\* the steps a provider's leg is made of: their text and their length
RouteSteps == {[instructions |-> "Turn left", distance |-> 10],
               [instructions |-> "Continue", distance |-> 0]}
\* the sequences over S of n elements at most
SeqsUpTo(S, n) == UNION {[1..k -> S] : k \in 0..n}
\* the legs of the routes generateInstructions is followed on
RouteLegs == SeqsUpTo(SeqsUpTo(RouteSteps, MaxSteps), MaxLegs)

undefined == <<>>
Some(v) == <<v>>
Def(x) == x # <<>>
Val(x) == x[1]

\* What an awaited call gives its caller: a value, or an exception.
Value(v) == [kind |-> "value", value |-> v]
Throws == [kind |-> "throws", value |-> <<>>]

\* JavaScript array read a[i] (0-based): undefined outside the array
At(a, i) == IF i + 1 \in DOMAIN a THEN Some(a[i + 1]) ELSE undefined

Abs(x) == IF x < 0 THEN -x ELSE x
Min(a, b) == IF a < b THEN a ELSE b
Max(a, b) == IF a > b THEN a ELSE b

RECURSIVE SumSeq(_)
SumSeq(s) == IF s = <<>> THEN 0 ELSE Head(s) + SumSeq(Tail(s))

calculateDistance(point1, point2) == Abs(point2 - point1)

(***************************************************************************)
(* State.  The fields of NavigationManager, then what the event loop and   *)
(* the location SDK hold for it, then the command layer, then what the     *)
(* last handler gave out (the events it emitted, the value it returned).   *)
(***************************************************************************)
VARIABLES
    navigationState,            \* NavigationState record
    settings,                   \* NavigationSettings (the fields the manager branches on)
    instructions,               \* NavigationInstruction[]
    currentInstructionIndex,    \* 0-based pointer into instructions
    lastAnnouncedDistance,
    offRouteCheckCount,
    lastLocationUpdate,         \* optional timestamp
    displayUpdateInterval,      \* TRUE: the 1 s interval timer is scheduled
    aiContextInterval,          \* TRUE: the 20 s interval timer is scheduled
    locationUnsubscriber,       \* optional: accuracy of the subscription it cancels
    currentAiContext,
    currentStoreSignDetection,
    orphanHandlers,             \* live subscriptions the manager cannot cancel any more
    timeouts,                   \* pending setTimeout(startLocationTracking, 100)
    recalculations,             \* route requests of unresolved recalculateRoute calls
    aiRequests,                 \* unresolved updateAiContext calls, counted by the await they are at
    navCmd,                     \* navigate commands in flight, by the await they are at
    wpCmd,                      \* position (and request) of the addWaypoint in flight
    connected,                  \* FALSE after onStop
    emitted,                    \* events emitted by the last handler, in order
    shown,                      \* notices the last handler passed to showMessage, in order
    displayed,                  \* TRUE iff the last handler drew the navigation display
    sink,                       \* blocks the last handler sent to the display sink, in order
    returned,                   \* what the last handler returned ("" if nothing)
    startedSinceRestart,        \* navigation_started events since the last restartSession
    deviation,                  \* navigating ticks more than 50 m from the route, in a row
    waypointsAdded,             \* waypoints of the addWaypoint calls that returned true, in order
    announcements,              \* times the current instruction has been announced
    applied                     \* the call of a function of the services that is followed

mgrVars == <<navigationState, settings, instructions, currentInstructionIndex,
             lastAnnouncedDistance, offRouteCheckCount, lastLocationUpdate,
             displayUpdateInterval, aiContextInterval, locationUnsubscriber,
             currentAiContext, currentStoreSignDetection>>
loopVars == <<orphanHandlers, timeouts, recalculations, aiRequests>>
sessionVars == <<mgrVars, loopVars, navCmd, wpCmd, connected, emitted, shown, displayed,
                 sink, returned, startedSinceRestart, deviation, waypointsAdded, announcements>>
vars == <<sessionVars, applied>>

\* The runs of deviating ticks of the navigation under way (none when no
\* navigation is, and none yet when one starts): `ticks` is the
\* number of navigating ticks in a row, up to the last one, that were more
\* than ROUTE_DEVIATION_THRESHOLD from the route in force when they came;
\* `ofRoute` is the same number counted from the last time an off-route
\* recalculation put a route in place.
NoDeviation == [ticks |-> 0, ofRoute |-> 0]

\* applied holds one call of a function of the services, followed on its
\* own: the function, its argument and, once it has returned, its result.
\* While a session is followed no such call is.
NotApplied == [fn |-> "none"]

\* waypointsAdded holds the waypoints added to the route of the navigation
\* under way since startNavigation made it (none when there is no route).

\* announcements counts the voice announcements of the instruction the
\* pointer is at, spoken by the ticks of the navigation under way since that
\* instruction became the current one: since the pointer moved to it, or
\* since startNavigation, addWaypoint or recalculateRoute put its list in
\* place.  World.spoken is the number the handler under way has spoken.

\* The manager and its event loop as one value, for the methods below, which
\* map such a value to the value after the call.
World ==
    [ns |-> navigationState,
     settings |-> settings,
     instructions |-> instructions,
     currentInstructionIndex |-> currentInstructionIndex,
     lastAnnouncedDistance |-> lastAnnouncedDistance,
     offRouteCheckCount |-> offRouteCheckCount,
     lastLocationUpdate |-> lastLocationUpdate,
     displayUpdateInterval |-> displayUpdateInterval,
     aiContextInterval |-> aiContextInterval,
     locationUnsubscriber |-> locationUnsubscriber,
     currentAiContext |-> currentAiContext,
     currentStoreSignDetection |-> currentStoreSignDetection,
     orphanHandlers |-> orphanHandlers,
     timeouts |-> timeouts,
     recalculations |-> recalculations,
     aiRequests |-> aiRequests,
     emitted |-> <<>>,
     shown |-> <<>>,
     displayed |-> FALSE,
     sink |-> <<>>,
     spoken |-> 0,
     deviation |-> deviation,
     waypointsAdded |-> waypointsAdded]

Commit(w) ==
    /\ navigationState' = w.ns
    /\ settings' = w.settings
    /\ instructions' = w.instructions
    /\ currentInstructionIndex' = w.currentInstructionIndex
    /\ lastAnnouncedDistance' = w.lastAnnouncedDistance
    /\ offRouteCheckCount' = w.offRouteCheckCount
    /\ lastLocationUpdate' = w.lastLocationUpdate
    /\ displayUpdateInterval' = w.displayUpdateInterval
    /\ aiContextInterval' = w.aiContextInterval
    /\ locationUnsubscriber' = w.locationUnsubscriber
    /\ currentAiContext' = w.currentAiContext
    /\ currentStoreSignDetection' = w.currentStoreSignDetection
    /\ orphanHandlers' = w.orphanHandlers
    /\ timeouts' = w.timeouts
    /\ recalculations' = w.recalculations
    /\ aiRequests' = w.aiRequests
    /\ emitted' = w.emitted
    /\ shown' = w.shown
    /\ displayed' = w.displayed
    /\ sink' = w.sink
    /\ startedSinceRestart' =
          IF \E i \in DOMAIN w.emitted : w.emitted[i] = "session_restarted" THEN 0
          ELSE Min(2, startedSinceRestart
                 + Cardinality({i \in DOMAIN w.emitted : w.emitted[i] = "navigation_started"}))
    /\ deviation' =
          IF \/ ~w.ns.isNavigating
             \/ \E i \in DOMAIN w.emitted : w.emitted[i] = "navigation_started"
          THEN NoDeviation
          ELSE w.deviation
    /\ waypointsAdded' =
          IF \/ ~Def(w.ns.currentRoute)
             \/ \E i \in DOMAIN w.emitted : w.emitted[i] = "navigation_started"
          THEN <<>>
          ELSE w.waypointsAdded
    /\ announcements' =
          IF ~w.ns.isNavigating THEN 0
          ELSE IF \/ w.currentInstructionIndex # currentInstructionIndex
                  \/ \E i \in DOMAIN w.emitted :
                        w.emitted[i] \in {"navigation_started", "route_recalculated"}
               THEN w.spoken
               ELSE Min(MaxAnnouncements, announcements + w.spoken)
    /\ applied' = applied

\* The bounds hold of the value a handler leaves.
WithinBounds(w) ==
    /\ w.orphanHandlers <= MaxOrphanHandlers
    /\ w.timeouts <= MaxTimeouts
    /\ Len(w.recalculations) <= MaxRecalculations
    /\ w.offRouteCheckCount <= MaxOffRouteCount

\* The same, where off-route recalculations that overlap are followed.
WithinBoundsOverlapping(w) ==
    /\ w.orphanHandlers <= MaxOrphanHandlers
    /\ w.timeouts <= MaxTimeouts
    /\ Len(w.recalculations) <= MaxPending
    /\ w.offRouteCheckCount <= MaxOffRouteCount

(***************************************************************************)
(* Route provider and instruction generation (MappingService).             *)
(***************************************************************************)
\* processMapboxRoute / processORSRoute / generateDemoRoute: the route record.
\* Every one of them answers waypoints: [] and the request's end points.
Route(origin, destination, legs) ==
    [startLocation |-> origin,
     endLocation |-> destination,
     waypoints |-> <<>>,
     distance |-> calculateDistance(origin, destination),
     legs |-> legs]

generateDemoRoute(request) == Route(request.origin, request.destination, DemoLegs)

\* calculateRoute, had it answered null when neither provider gives a route
calculateRouteWithoutDemo(request, mapbox, ors) ==
    IF mapbox.kind = "route" THEN Some(Route(request.origin, request.destination, mapbox.legs))
    ELSE IF ors.kind = "route" THEN Some(Route(request.origin, request.destination, ors.legs))
    ELSE undefined

\* Mapbox first, then OpenRouteService, then the demo route: never null.
calculateRoute(request, mapbox, ors) ==
    IF mapbox.kind = "route" THEN Some(Route(request.origin, request.destination, mapbox.legs))
    ELSE IF ors.kind = "route" THEN Some(Route(request.origin, request.destination, ors.legs))
    ELSE Some(generateDemoRoute(request))

\* geocode: the results of the geocoding request; any error is caught and
\* answered with the empty list.
geocode(response) ==
    IF response.kind = "throws" THEN <<>> ELSE response.value

\* One instruction per step, in leg-then-step order, and the arrival instruction.
generateInstructions(route) ==
    LET n == SumSeq(route.legs) IN
    [i \in 1..(n + 1) |->
        [id |-> i - 1,
         isDestination |-> (i = n + 1),
         route |-> [startLocation |-> route.startLocation,
                    endLocation |-> route.endLocation,
                    legs |-> route.legs]]]

\* generateInstructions on the steps themselves.  The text of an instruction
\* is its step's, without the street, exit and destination the code adds.
instructionOfStep(step, instructionId) ==
    [id |-> instructionId,
     distance |-> step.distance,
     instruction |-> step.instructions,
     isDestination |-> undefined]

\* for (const step of leg.steps) ... instructions.push(instruction)
RECURSIVE pushSteps(_, _)
pushSteps(list, steps) ==
    IF steps = <<>> THEN list
    ELSE pushSteps(Append(list, instructionOfStep(Head(steps), Len(list))), Tail(steps))

\* for (const leg of route.legs) ...
RECURSIVE pushLegs(_, _)
pushLegs(list, legs) ==
    IF legs = <<>> THEN list
    ELSE pushLegs(pushSteps(list, Head(legs)), Tail(legs))

\* the final destination instruction
arrivalInstruction(instructionId) ==
    [id |-> instructionId,
     distance |-> 0,
     instruction |-> "You have arrived at your destination",
     isDestination |-> Some(TRUE)]

\* generateInstructions, had it looked at the first leg only
instructionsOfFirstLeg(legs) ==
    LET list == pushLegs(<<>>, IF legs = <<>> THEN <<>> ELSE <<Head(legs)>>)
    IN Append(list, arrivalInstruction(Len(list)))

instructionsOfLegs(legs) ==
    LET list == pushLegs(<<>>, legs)
    IN Append(list, arrivalInstruction(Len(list)))

(***************************************************************************)
(* Location utilities: the arrow of a bearing.                             *)
(***************************************************************************)
\* a % n of JavaScript, for n > 0: the remainder has the sign of a
Remainder(a, n) == IF a >= 0 THEN a % n ELSE 0 - ((0 - a) % n)

\* the chain of comparisons of getDirectionalArrow
arrowOf(normalizedBearing) ==
    IF normalizedBearing >= 3375 \/ normalizedBearing < 225 THEN "^"
    ELSE IF normalizedBearing >= 225 /\ normalizedBearing < 675 THEN ">"
    ELSE IF normalizedBearing >= 675 /\ normalizedBearing < 1125 THEN ">"
    ELSE IF normalizedBearing >= 1125 /\ normalizedBearing < 1575 THEN ">"
    ELSE IF normalizedBearing >= 1575 /\ normalizedBearing < 2025 THEN "v"
    ELSE IF normalizedBearing >= 2025 /\ normalizedBearing < 2475 THEN "<"
    ELSE IF normalizedBearing >= 2475 /\ normalizedBearing < 2925 THEN "<"
    ELSE "<"

\* getDirectionalArrow, had it stopped at bearing % 360
getDirectionalArrowOfRemainder(bearing) == arrowOf(Remainder(bearing, FullTurn))

getDirectionalArrow(bearing) ==
    LET normalizedBearing == Remainder(Remainder(bearing, FullTurn) + FullTurn, FullTurn)
    IN arrowOf(normalizedBearing)

(***************************************************************************)
(* Instruction formatter: which distances are announced.                   *)
(***************************************************************************)
getAnnouncementThresholds(frequency) ==
    CASE frequency = 1 -> {500, 100}
      [] frequency = 2 -> {800, 300, 100}
      [] frequency = 3 -> {1000, 500, 200, 50}
      [] frequency = 4 -> {1500, 1000, 500, 200, 100, 50}
      [] frequency = 5 -> {2000, 1500, 1000, 500, 300, 200, 100, 50}
      [] OTHER -> {1000, 500, 200, 50}

\* generateVoiceAnnouncement, had it announced at 10 m from a threshold too
generateVoiceAnnouncementInclusive(distance, stg) ==
    /\ stg.voice_guidance
    /\ \E threshold \in getAnnouncementThresholds(stg.announcement_frequency) :
          Abs(distance - threshold) <= 10

\* TRUE iff generateVoiceAnnouncement returns an announcement (not null)
generateVoiceAnnouncement(distance, stg) ==
    /\ stg.voice_guidance
    /\ \E threshold \in getAnnouncementThresholds(stg.announcement_frequency) :
          Abs(distance - threshold) < 10

(***************************************************************************)
(* NavigationManager: private helpers.                                     *)
(***************************************************************************)
emitEvent(w, type) == [w EXCEPT !.emitted = Append(@, type)]

\* showMessage hands the text to the display, which keeps nothing for the
\* manager.  Of the texts, the notices (the fixed texts of the manager) are
\* recorded, each by its first words; the spoken announcements are not, and
\* the navigation display of updateNavigationDisplay is recorded apart, in
\* `displayed` and, in order with the announcements of instructions, in `sink`.
showMessage(w, message) == [w EXCEPT !.shown = Append(@, message)]

getLocationAccuracy(w) == IF w.ns.isNavigating THEN "realtime" ELSE "reduced"

\* subscribeToStream adds a handler; the unsubscribe function it returns
\* overwrites the one held, whose subscription stays live and out of reach.
startLocationTracking(w) ==
    [w EXCEPT !.orphanHandlers = IF Def(w.locationUnsubscriber) THEN @ + 1 ELSE @,
              !.locationUnsubscriber = Some(getLocationAccuracy(w))]

\* Calls the held unsubscribe function, then session.location.unsubscribeFromStream().
stopLocationTracking(w, sdk) ==
    [w EXCEPT !.locationUnsubscriber = undefined,
              !.orphanHandlers = IF sdk = "all" THEN 0 ELSE @]

startDisplayUpdateInterval(w) == [w EXCEPT !.displayUpdateInterval = TRUE]
stopDisplayUpdateInterval(w) == [w EXCEPT !.displayUpdateInterval = FALSE]
startAiContextUpdateInterval(w) == [w EXCEPT !.aiContextInterval = TRUE]
stopAiContextUpdateInterval(w) == [w EXCEPT !.aiContextInterval = FALSE]

\* The call up to its first await: the image request goes out.
updateAiContext(w) ==
    IF ~Def(w.ns.currentLocation) THEN w
    ELSE [w EXCEPT !.aiRequests.image = Min(MaxAiRequests, @ + 1)]

calculateRemainingDistance(w) ==
    IF ~Def(w.ns.currentRoute) \/ ~Def(w.ns.currentLocation) THEN 0
    ELSE calculateDistance(Val(w.ns.currentLocation), Val(w.ns.currentRoute).endLocation)

calculateDistanceToRoute(w, location) ==
    IF ~Def(w.ns.currentRoute) THEN 0
    ELSE calculateDistance(location, Val(w.ns.currentRoute).startLocation)

\* Percentage, rounded down.  A route of distance 0 with the user away from
\* its end gives -Infinity, which Math.max(0, ...) turns into 0.
updateRouteProgress(w, location) ==
    IF ~Def(w.ns.currentRoute) THEN w
    ELSE LET totalDistance == Val(w.ns.currentRoute).distance
             remainingDistance == calculateRemainingDistance(w)
             progress == IF totalDistance = 0 THEN 0
                         ELSE Max(0, Min(100,
                                ((totalDistance - remainingDistance) * 100) \div totalDistance))
         IN [w EXCEPT !.ns.routeProgress = progress]

\* The call up to its await: the request for a route from the current
\* location to the current route's end goes out.
recalculateRoute(w, currentLocation) ==
    IF ~Def(w.ns.currentRoute) THEN w
    ELSE [w EXCEPT !.recalculations =
            Append(@, [origin |-> currentLocation,
                       destination |-> Val(w.ns.currentRoute).endLocation])]

\* Variant of handleOffRoute that emits its event before it looks at the flag.
handleOffRouteAnnouncingAgain(w, location) ==
    LET w1 == emitEvent(w, "off_route_detected") IN
    IF w.ns.isOffRoute THEN w1
    ELSE recalculateRoute(showMessage([w1 EXCEPT !.ns.isOffRoute = TRUE],
                                      "Off route - recalculating..."),
                          location)

handleOffRoute(w, location) ==
    IF w.ns.isOffRoute THEN w
    ELSE recalculateRoute(
            emitEvent(showMessage([w EXCEPT !.ns.isOffRoute = TRUE],
                                  "Off route - recalculating..."),
                      "off_route_detected"),
            location)

\* Variant of checkOffRoute that hands over to handleOffRoute one deviating
\* tick early.
checkOffRouteEarly(w, location) ==
    IF ~Def(w.ns.currentRoute) THEN w
    ELSE IF calculateDistanceToRoute(w, location) > ROUTE_DEVIATION_THRESHOLD
         THEN LET w1 == [w EXCEPT !.offRouteCheckCount = @ + 1] IN
              IF w1.offRouteCheckCount >= MAX_OFF_ROUTE_CHECKS - 1
              THEN handleOffRoute(w1, location)
              ELSE w1
         ELSE LET w1 == [w EXCEPT !.offRouteCheckCount = 0] IN
              IF w1.ns.isOffRoute
              THEN showMessage([w1 EXCEPT !.ns.isOffRoute = FALSE], "Back on route")
              ELSE w1

checkOffRoute(w, location) ==
    IF ~Def(w.ns.currentRoute) THEN w
    ELSE IF calculateDistanceToRoute(w, location) > ROUTE_DEVIATION_THRESHOLD
         THEN LET w1 == [w EXCEPT !.offRouteCheckCount = @ + 1] IN
              IF w1.offRouteCheckCount >= MAX_OFF_ROUTE_CHECKS
              THEN handleOffRoute(w1, location)
              ELSE w1
         ELSE LET w1 == [w EXCEPT !.offRouteCheckCount = 0] IN
              IF w1.ns.isOffRoute
              THEN showMessage([w1 EXCEPT !.ns.isOffRoute = FALSE], "Back on route")
              ELSE w1

\* `random` is the outcome of Math.random() < 0.1
updateCurrentInstruction(w, location, random) ==
    IF w.currentInstructionIndex >= Len(w.instructions) THEN w
    ELSE LET currentInstruction == w.instructions[w.currentInstructionIndex + 1]
             shouldAdvance ==
                 /\ w.currentInstructionIndex < Len(w.instructions) - 2
                 /\ random
             w1 == IF ~currentInstruction.isDestination /\ shouldAdvance
                   THEN LET a == [w EXCEPT !.currentInstructionIndex = @ + 1,
                                           !.lastAnnouncedDistance = NotAnnounced,
                                           !.ns.currentStepIndex = w.currentInstructionIndex + 2]
                        IN IF a.currentInstructionIndex < Len(a.instructions)
                           THEN emitEvent(a, "instruction_updated")
                           ELSE a
                   ELSE w
         IN [w1 EXCEPT !.ns.currentInstruction = At(w1.instructions, w1.currentInstructionIndex),
                       !.ns.nextInstruction = At(w1.instructions, w1.currentInstructionIndex + 1)]

\* The blocks of the display sink that are followed in order: the navigation
\* display, with the instruction it shows, and the voice announcement of an
\* instruction.
DisplayBlock(instruction) == [block |-> "display", instruction |-> instruction]
VoiceBlock == [block |-> "voice", instruction |-> undefined]

\* The display is drawn only with a current instruction and a locked
\* session; the display sink keeps nothing for the manager, so a refresh
\* leaves the manager as it is.
updateNavigationDisplay(w) ==
    IF ~Def(w.ns.currentInstruction) \/ ~w.ns.sessionLocked THEN w
    ELSE [w EXCEPT !.displayed = TRUE,
                   !.sink = Append(@, DisplayBlock(w.ns.currentInstruction))]

\* speakText of the announcement of the current instruction
speakText(w) == [w EXCEPT !.spoken = @ + 1, !.sink = Append(@, VoiceBlock)]

\* handleVoiceAnnouncements, had it not looked at the last announced distance
handleVoiceAnnouncementsUnmarked(w, location) ==
    IF ~w.settings.voice_guidance \/ ~Def(w.ns.currentInstruction) THEN w
    ELSE LET distanceToTurn == DistanceToTurn
             announcement == generateVoiceAnnouncement(distanceToTurn, w.settings)
         IN IF announcement
            THEN [speakText(w) EXCEPT !.lastAnnouncedDistance = distanceToTurn]
            ELSE w

handleVoiceAnnouncements(w, location) ==
    IF ~w.settings.voice_guidance \/ ~Def(w.ns.currentInstruction) THEN w
    ELSE LET distanceToTurn == DistanceToTurn
             announcement == generateVoiceAnnouncement(distanceToTurn, w.settings)
         IN IF announcement /\ distanceToTurn # w.lastAnnouncedDistance
            THEN [speakText(w) EXCEPT !.lastAnnouncedDistance = distanceToTurn]
            ELSE w

\* Variant of handleDestinationReached that releases the session lock on
\* arrival: lock persistence must fail of it.
handleDestinationReachedUnlocking(w, sdk) ==
    LET w1 == [w EXCEPT !.ns.isNavigating = FALSE, !.ns.sessionLocked = FALSE]
        w2 == stopLocationTracking(w1, sdk)
        w3 == [w2 EXCEPT !.timeouts = @ + 1]
    IN emitEvent(showMessage(updateNavigationDisplay(w3), "You have arrived"),
                 "destination_reached")

handleDestinationReached(w, sdk) ==
    LET w1 == [w EXCEPT !.ns.isNavigating = FALSE, !.ns.sessionLocked = TRUE]
        w2 == stopLocationTracking(w1, sdk)
        w3 == [w2 EXCEPT !.timeouts = @ + 1]
    IN emitEvent(showMessage(updateNavigationDisplay(w3), "You have arrived"),
                 "destination_reached")

\* Variant of processLocationUpdate that takes arrival for a distance below
\* the threshold only: a fix exactly 30 m from the end must show the difference.
processLocationUpdateBelowThreshold(w, update, random, sdk) ==
    IF ~Def(w.ns.currentRoute) THEN w
    ELSE LET distanceToDestination ==
                 calculateDistance(update.location, Val(w.ns.currentRoute).endLocation)
         IN IF distanceToDestination < DESTINATION_THRESHOLD
            THEN handleDestinationReached(w, sdk)
            ELSE LET w1 == updateRouteProgress(w, update.location)
                     w2 == checkOffRoute(w1, update.location)
                     w3 == updateCurrentInstruction(w2, update.location, random)
                     w4 == updateNavigationDisplay(w3)
                 IN handleVoiceAnnouncements(w4, update.location)

\* Variant of processLocationUpdate that runs the off-route check before it
\* looks for arrival.
processLocationUpdateCheckingFirst(w, update, random, sdk) ==
    IF ~Def(w.ns.currentRoute) THEN w
    ELSE LET distanceToDestination ==
                 calculateDistance(update.location, Val(w.ns.currentRoute).endLocation)
             w0 == checkOffRoute(w, update.location)
         IN IF distanceToDestination <= DESTINATION_THRESHOLD
            THEN handleDestinationReached(w0, sdk)
            ELSE LET w1 == updateRouteProgress(w0, update.location)
                     w3 == updateCurrentInstruction(w1, update.location, random)
                     w4 == updateNavigationDisplay(w3)
                 IN handleVoiceAnnouncements(w4, update.location)

\* processLocationUpdate, had it refreshed the display before the other stages
processLocationUpdateDisplayingFirst(w, update, random, sdk) ==
    IF ~Def(w.ns.currentRoute) THEN w
    ELSE LET distanceToDestination ==
                 calculateDistance(update.location, Val(w.ns.currentRoute).endLocation)
         IN IF distanceToDestination <= DESTINATION_THRESHOLD
            THEN handleDestinationReached(w, sdk)
            ELSE LET w0 == updateNavigationDisplay(w)
                     w1 == updateRouteProgress(w0, update.location)
                     w2 == checkOffRoute(w1, update.location)
                     w3 == updateCurrentInstruction(w2, update.location, random)
                 IN handleVoiceAnnouncements(w3, update.location)

processLocationUpdate(w, update, random, sdk) ==
    IF ~Def(w.ns.currentRoute) THEN w
    ELSE LET distanceToDestination ==
                 calculateDistance(update.location, Val(w.ns.currentRoute).endLocation)
         IN IF distanceToDestination <= DESTINATION_THRESHOLD
            THEN handleDestinationReached(w, sdk)
            ELSE LET w1 == updateRouteProgress(w, update.location)
                     w2 == checkOffRoute(w1, update.location)
                     w3 == updateCurrentInstruction(w2, update.location, random)
                     w4 == updateNavigationDisplay(w3)
                 IN handleVoiceAnnouncements(w4, update.location)

(***************************************************************************)
(* NavigationManager: public methods.  An async method is cut at its       *)
(* awaits; each piece maps the manager to [w, ret], ret being "await"      *)
(* while the method goes on, or what it returns.  startNavigation returns  *)
(* false from four places, told apart as "false:location", "false:geocode",*)
(* "false:route" and, from its catch block, "false:error".                 *)
(***************************************************************************)
\* Variant of startNavigationLocated that locks the session before it gives
\* up for want of a location.
startNavigationLocatedLocking(w, currentLocation) ==
    IF ~Def(currentLocation)
    THEN [w |-> showMessage([w EXCEPT !.ns.sessionLocked = TRUE],
                            "Unable to get current location"),
          ret |-> "false:location"]
    ELSE [w |-> showMessage(w, "Calculating route..."), ret |-> "await"]

\* startNavigation, from `await getCurrentLocation()` to the next await
startNavigationLocated(w, currentLocation) ==
    IF ~Def(currentLocation)
    THEN [w |-> showMessage(w, "Unable to get current location"), ret |-> "false:location"]
    ELSE [w |-> showMessage(w, "Calculating route..."), ret |-> "await"]

\* Variant of startNavigationGeocoded that marks the navigation as running
\* before the destination is known.
startNavigationGeocodedNavigating(w, geocoded) ==
    LET w1 == [w EXCEPT !.ns.isNavigating = TRUE] IN
    IF geocoded.kind = "throws"
    THEN [w |-> showMessage(w1, "Navigation error"), ret |-> "false:error"]
    ELSE IF Len(geocoded.value) = 0
    THEN [w |-> showMessage(w1, "Unable to find location"), ret |-> "false:geocode"]
    ELSE [w |-> w, ret |-> "await"]

\* startNavigation, from `await geocode(destination)` to the next await
startNavigationGeocoded(w, geocoded) ==
    IF geocoded.kind = "throws"
    THEN [w |-> showMessage(w, "Navigation error"), ret |-> "false:error"]
    ELSE IF Len(geocoded.value) = 0
    THEN [w |-> showMessage(w, "Unable to find location"), ret |-> "false:geocode"]
    ELSE [w |-> w, ret |-> "await"]

\* startNavigation: the NavigationState it assigns once it has a route
startNavigationState(currentLocation, route) ==
    [isNavigating |-> TRUE,
     sessionLocked |-> TRUE,
     currentRoute |-> route,
     currentLocation |-> Some(currentLocation),
     currentSpeed |-> Some(0),
     isOffRoute |-> FALSE,
     routeProgress |-> 0,
     currentStepIndex |-> 1,
     totalSteps |-> 0,
     currentInstruction |-> undefined,
     nextInstruction |-> undefined]

\* Variant of startNavigationInstructions that keeps the off-route counter
\* of the navigation before.
startNavigationInstructionsKeepingCount(w, route) ==
    [w EXCEPT !.instructions = generateInstructions(Val(route)),
              !.currentInstructionIndex = 0,
              !.lastAnnouncedDistance = NotAnnounced]

\* startNavigation: the instructions, the pointer and the counters
startNavigationInstructions(w, route) ==
    [w EXCEPT !.instructions = generateInstructions(Val(route)),
              !.currentInstructionIndex = 0,
              !.lastAnnouncedDistance = NotAnnounced,
              !.offRouteCheckCount = 0]

\* Variant of startNavigationStepCounts that leaves totalSteps as
\* startNavigationState set it.
startNavigationStepCountsUnset(w) ==
    [w EXCEPT !.ns.currentStepIndex = 1,
              !.ns.currentInstruction = At(w.instructions, 0)]

\* startNavigation: the step counts, once the instructions are generated
startNavigationStepCounts(w) ==
    [w EXCEPT !.ns.totalSteps = Len(w.instructions),
              !.ns.currentStepIndex = 1,
              !.ns.currentInstruction = At(w.instructions, 0)]

\* startNavigation, from `await calculateRoute(...)` to its return
startNavigationRouted(w, currentLocation, routed) ==
    IF routed.kind = "throws"
    THEN [w |-> showMessage(w, "Navigation error"), ret |-> "false:error"]
    ELSE IF ~Def(routed.value)
    THEN [w |-> showMessage(w, "Unable to calculate route"), ret |-> "false:route"]
    ELSE
    LET route == routed.value
        w1 == [w EXCEPT !.ns = startNavigationState(currentLocation, route)]
        w2 == startLocationTracking(w1)
        w3 == startNavigationInstructions(w2, route)
        w4 == startNavigationStepCounts(w3)
        w5 == startAiContextUpdateInterval(startDisplayUpdateInterval(w4))
        w6 == updateAiContext(updateNavigationDisplay(w5))
    IN [w |-> emitEvent(w6, "navigation_started"), ret |-> "true"]

\* startNavigation from `await calculateRoute(...)` on, when a call it makes
\* once it has the route throws: the statements before that call have run,
\* the catch block shows its notice, and false is returned.  `thrower` is
\* the call: generateInstructions, the display sink as updateNavigationDisplay
\* hands it the display (it takes the notice of the catch block), or a
\* listener of navigation_started.
startNavigationRoutedThrowing(w, currentLocation, route, thrower) ==
    LET w1 == [w EXCEPT !.ns = startNavigationState(currentLocation, route)]
        w2 == startLocationTracking(w1)
        w3 == startNavigationInstructions(w2, route)
        w4 == startNavigationStepCounts(w3)
        w5 == startAiContextUpdateInterval(startDisplayUpdateInterval(w4))
        w6 == updateAiContext(updateNavigationDisplay(w5))
        thrown == CASE thrower = "generateInstructions" -> w2
                    [] thrower = "showTextWall" -> w5
                    [] thrower = "listener" -> emitEvent(w6, "navigation_started")
    IN [w |-> showMessage(thrown, "Navigation error"), ret |-> "false:error"]

\* Variant of restartSession that leaves the session locked.
restartSessionKeepingLock(w, sdk) ==
    LET w1 == [w EXCEPT !.ns.isNavigating = FALSE,
                        !.ns.currentRoute = undefined,
                        !.ns.currentInstruction = undefined,
                        !.ns.nextInstruction = undefined,
                        !.ns.currentStepIndex = 0,
                        !.ns.totalSteps = 0]
        w2 == stopAiContextUpdateInterval(stopDisplayUpdateInterval(w1))
    IN emitEvent(showMessage(stopLocationTracking(w2, sdk), "Session Restarted"),
                 "session_restarted")

\* Variant of restartSession that leaves the scene-context timer scheduled.
restartSessionKeepingAiInterval(w, sdk) ==
    LET w1 == [w EXCEPT !.ns.sessionLocked = FALSE,
                        !.ns.isNavigating = FALSE,
                        !.ns.currentRoute = undefined,
                        !.ns.currentInstruction = undefined,
                        !.ns.nextInstruction = undefined,
                        !.ns.currentStepIndex = 0,
                        !.ns.totalSteps = 0]
        w2 == stopDisplayUpdateInterval(w1)
    IN emitEvent(showMessage(stopLocationTracking(w2, sdk), "Session Restarted"),
                 "session_restarted")

\* Variant of stopNavigation that stops location tracking for good and the
\* scene-context timer with it.
stopNavigationStoppingTracking(w, sdk) ==
    IF ~w.ns.isNavigating THEN w
    ELSE LET w1 == [w EXCEPT !.ns.isNavigating = FALSE, !.ns.sessionLocked = TRUE]
             w2 == stopAiContextUpdateInterval(stopLocationTracking(w1, sdk))
         IN emitEvent(showMessage(updateNavigationDisplay(w2), "Navigation stopped"),
                      "navigation_cancelled")

\* Variant of stopNavigation that does not look whether a navigation runs.
stopNavigationUnguarded(w, sdk) ==
    LET w1 == [w EXCEPT !.ns.isNavigating = FALSE, !.ns.sessionLocked = TRUE]
        w2 == stopLocationTracking(w1, sdk)
        w3 == [w2 EXCEPT !.timeouts = @ + 1]
    IN emitEvent(showMessage(updateNavigationDisplay(w3), "Navigation stopped"),
                 "navigation_cancelled")

stopNavigation(w, sdk) ==
    IF ~w.ns.isNavigating THEN w
    ELSE LET w1 == [w EXCEPT !.ns.isNavigating = FALSE, !.ns.sessionLocked = TRUE]
             w2 == stopLocationTracking(w1, sdk)
             w3 == [w2 EXCEPT !.timeouts = @ + 1]
         IN emitEvent(showMessage(updateNavigationDisplay(w3), "Navigation stopped"),
                      "navigation_cancelled")

restartSession(w, sdk) ==
    LET w1 == [w EXCEPT !.ns.sessionLocked = FALSE,
                        !.ns.isNavigating = FALSE,
                        !.ns.currentRoute = undefined,
                        !.ns.currentInstruction = undefined,
                        !.ns.nextInstruction = undefined,
                        !.ns.currentStepIndex = 0,
                        !.ns.totalSteps = 0]
        w2 == stopAiContextUpdateInterval(stopDisplayUpdateInterval(w1))
    IN emitEvent(showMessage(stopLocationTracking(w2, sdk), "Session Restarted"),
                 "session_restarted")

isSessionLocked(w) == w.ns.sessionLocked

\* addWaypoint, from the call to `await geocodeAddress(waypoint)`
addWaypointCalled(w) ==
    IF ~Def(w.ns.currentRoute) \/ ~Def(w.ns.currentLocation)
    THEN [w |-> w, ret |-> "false", waypoints |-> <<>>]
    ELSE [w |-> w, ret |-> "await", waypoints |-> Val(w.ns.currentRoute).waypoints]

\* addWaypoint, from `await geocodeAddress(waypoint)` to `await calculateRoute(...)`.
\* geocodeAddress throws on an empty result, and reading endLocation of a
\* route that is gone throws: both end in the catch.
addWaypointGeocoded(w, currentWaypoints, geocodeResults) ==
    IF Len(geocodeResults) = 0 \/ ~Def(w.ns.currentRoute)
    THEN [w |-> w, ret |-> "false", request |-> undefined]
    ELSE [w |-> w, ret |-> "await",
          request |-> Some([origin |-> Val(w.ns.currentLocation),
                            destination |-> Val(w.ns.currentRoute).endLocation,
                            waypoints |-> Append(currentWaypoints, geocodeResults[1])])]

\* Variant of addWaypointRouted that gives up the route it has when it gets
\* no new one.
addWaypointRoutedDroppingRoute(w, routed) ==
    IF routed.kind = "throws" \/ ~Def(routed.value)
    THEN [w |-> [w EXCEPT !.ns.currentRoute = undefined], ret |-> "false"]
    ELSE LET newRoute == routed.value
             w1 == [w EXCEPT !.ns.currentRoute = newRoute,
                             !.instructions = generateInstructions(Val(newRoute)),
                             !.currentInstructionIndex = 0]
         IN [w |-> emitEvent(updateNavigationDisplay(w1), "route_recalculated"), ret |-> "true"]

\* Variant of addWaypointRouted that leaves the instruction pointer where
\* it was in the old list.
addWaypointRoutedKeepingPointer(w, routed) ==
    IF routed.kind = "throws" THEN [w |-> w, ret |-> "false"]
    ELSE LET newRoute == routed.value IN
    IF Def(newRoute)
    THEN LET w1 == [w EXCEPT !.ns.currentRoute = newRoute,
                             !.instructions = generateInstructions(Val(newRoute))]
         IN [w |-> emitEvent(updateNavigationDisplay(w1), "route_recalculated"), ret |-> "true"]
    ELSE [w |-> w, ret |-> "false"]

\* addWaypoint, from `await calculateRoute(...)` to its return; an exception
\* ends in the catch, which returns false
addWaypointRouted(w, routed) ==
    IF routed.kind = "throws" THEN [w |-> w, ret |-> "false"]
    ELSE LET newRoute == routed.value IN
    IF Def(newRoute)
    THEN LET w1 == [w EXCEPT !.ns.currentRoute = newRoute,
                             !.instructions = generateInstructions(Val(newRoute)),
                             !.currentInstructionIndex = 0]
         IN [w |-> emitEvent(updateNavigationDisplay(w1), "route_recalculated"), ret |-> "true"]
    ELSE [w |-> w, ret |-> "false"]

\* Variant of recalculateRouteRouted that puts the new route in place and
\* leaves the instruction list of the old one.
recalculateRouteRoutedKeepingInstructions(w, routed) ==
    IF routed.kind = "throws" THEN showMessage(w, "Unable to recalculate route")
    ELSE LET newRoute == routed.value IN
    IF Def(newRoute)
    THEN emitEvent(showMessage([w EXCEPT !.ns.currentRoute = newRoute,
                                         !.ns.isOffRoute = FALSE,
                                         !.currentInstructionIndex = 0,
                                         !.offRouteCheckCount = 0],
                               "Route recalculated"),
                   "route_recalculated")
    ELSE w

\* recalculateRoute, from `await calculateRoute(...)` to its return; an
\* exception ends in the catch, and an answer of null in nothing at all
\* recalculateRoute, had it left the instruction pointer where it was
recalculateRouteRoutedKeepingPointer(w, routed) ==
    IF routed.kind = "throws" THEN showMessage(w, "Unable to recalculate route")
    ELSE LET newRoute == routed.value IN
    IF Def(newRoute)
    THEN emitEvent(showMessage([w EXCEPT !.ns.currentRoute = newRoute,
                                         !.ns.isOffRoute = FALSE,
                                         !.instructions = generateInstructions(Val(newRoute)),
                                         !.offRouteCheckCount = 0],
                               "Route recalculated"),
                   "route_recalculated")
    ELSE w

recalculateRouteRouted(w, routed) ==
    IF routed.kind = "throws" THEN showMessage(w, "Unable to recalculate route")
    ELSE LET newRoute == routed.value IN
    IF Def(newRoute)
    THEN emitEvent(showMessage([w EXCEPT !.ns.currentRoute = newRoute,
                                         !.ns.isOffRoute = FALSE,
                                         !.instructions = generateInstructions(Val(newRoute)),
                                         !.currentInstructionIndex = 0,
                                         !.offRouteCheckCount = 0],
                               "Route recalculated"),
                   "route_recalculated")
    ELSE w

\* onLocationUpdate, had it run the pipeline whether a navigation runs or not
onLocationUpdateUnguarded(w, update, random, sdk) ==
    LET w1 == [w EXCEPT !.ns.currentLocation = Some(update.location),
                        !.ns.currentSpeed = update.speed,
                        !.lastLocationUpdate = Some(update.timestamp)]
        w2 == processLocationUpdate(w1, update, random, sdk)
    IN IF w2.ns.sessionLocked THEN updateNavigationDisplay(w2) ELSE w2

\* onLocationUpdate, had it looked at isNavigating before anything else
onLocationUpdateWhileNavigating(w, update, random, sdk) ==
    IF ~w.ns.isNavigating THEN w
    ELSE LET w1 == [w EXCEPT !.ns.currentLocation = Some(update.location),
                             !.ns.currentSpeed = update.speed,
                             !.lastLocationUpdate = Some(update.timestamp)]
             w2 == processLocationUpdate(w1, update, random, sdk)
         IN IF w2.ns.sessionLocked THEN updateNavigationDisplay(w2) ELSE w2

onLocationUpdate(w, update, random, sdk) ==
    LET w1 == [w EXCEPT !.ns.currentLocation = Some(update.location),
                        !.ns.currentSpeed = update.speed,
                        !.lastLocationUpdate = Some(update.timestamp)]
        w2 == IF w1.ns.isNavigating THEN processLocationUpdate(w1, update, random, sdk) ELSE w1
    IN IF w2.ns.sessionLocked THEN updateNavigationDisplay(w2) ELSE w2

\* { ...this.settings, ...newSettings }
updateSettings(w, newSettings) ==
    LET w1 == [w EXCEPT !.settings =
                 [k \in DOMAIN w.settings |->
                    IF k \in DOMAIN newSettings THEN newSettings[k] ELSE w.settings[k]]]
    IN IF w1.ns.isNavigating THEN updateNavigationDisplay(w1) ELSE w1

\* updateAiContext, from `await fetchStreetViewImage(...)` on
updateAiContextImage(w, imagePath) ==
    IF Def(imagePath) THEN [w |-> w, ret |-> "await"]
    ELSE [w |-> [w EXCEPT !.currentAiContext = "fallback",
                          !.currentStoreSignDetection =
                              [detected |-> FALSE, details |-> "No image available"]],
          ret |-> "done"]

\* updateAiContext, from `await detectStoreSigns(...)` on
updateAiContextDetected(w, storeSignDetection) ==
    [w EXCEPT !.currentStoreSignDetection = storeSignDetection]

\* updateAiContext from the last await on, had it cleared the off-route counter
updateAiContextAnalyzedClearingCount(w, analysis) ==
    updateNavigationDisplay([w EXCEPT !.currentAiContext = analysis,
                                      !.offRouteCheckCount = 0])

\* updateAiContext, from `await analyzeStreetViewImage(...)` on
updateAiContextAnalyzed(w, analysis) ==
    updateNavigationDisplay([w EXCEPT !.currentAiContext = analysis])

(***************************************************************************)
(* Initial state: the manager as its constructor leaves it, once onSession *)
(* has run setupLocationTracking, which subscribes to the location stream  *)
(* and hands the unsubscribe function to the manager                       *)
(* (setLocationUnsubscriber) unless the first location request fails.      *)
(***************************************************************************)
IdleWp == [pc |-> "idle", waypoints |-> <<>>, request |-> undefined]

Constructed ==
    /\ navigationState = [isNavigating |-> FALSE,
                          sessionLocked |-> FALSE,
                          currentRoute |-> undefined,
                          currentLocation |-> undefined,
                          currentSpeed |-> Some(0),
                          isOffRoute |-> FALSE,
                          routeProgress |-> 0,
                          currentStepIndex |-> 0,
                          totalSteps |-> 0,
                          currentInstruction |-> undefined,
                          nextInstruction |-> undefined]
    /\ settings = [voice_guidance |-> TRUE, announcement_frequency |-> 2]
    /\ instructions = <<>>
    /\ currentInstructionIndex = 0
    /\ lastAnnouncedDistance = NotAnnounced
    /\ offRouteCheckCount = 0
    /\ lastLocationUpdate = undefined
    /\ displayUpdateInterval = FALSE
    /\ aiContextInterval = FALSE
    /\ locationUnsubscriber \in {undefined, Some("reduced")}
    /\ currentAiContext = "Loading surroundings..."
    /\ currentStoreSignDetection =
          [detected |-> FALSE, details |-> "Initializing store sign detection..."]
    /\ orphanHandlers = 0
    /\ timeouts = 0
    /\ recalculations = <<>>
    /\ aiRequests = [image |-> 0, detect |-> 0, analyze |-> 0]
    /\ navCmd = [getLatestLocation |-> 0, startNavigation |-> 0]
    /\ wpCmd = IdleWp
    /\ connected = TRUE
    /\ emitted = <<>>
    /\ shown = <<>>
    /\ displayed = FALSE
    /\ sink = <<>>
    /\ returned = ""
    /\ startedSinceRestart = 0
    /\ deviation = NoDeviation
    /\ waypointsAdded = <<>>
    /\ announcements = 0

Init == Constructed /\ applied = NotApplied

RemoveAt(q, i) == [j \in 1..(Len(q) - 1) |-> IF j < i THEN q[j] ELSE q[j + 1]]

\* A handler ran and left w.
Ran(w) == WithinBounds(w) /\ Commit(w)

(***************************************************************************)
(* index.ts: the navigate command.  Both the tool call and the             *)
(* transcription handler run handleNavigateToDestination.                  *)
(***************************************************************************)
\* handleNavigateToDestination, from the call to `await getLatestLocation`
handleNavigateToDestinationCalled(w) ==
    IF isSessionLocked(w) THEN "navigate:locked" ELSE "await"

NavigateCalled(inFlight) ==
    /\ connected
    /\ navCmd.getLatestLocation + navCmd.startNavigation < inFlight
    /\ LET ret == handleNavigateToDestinationCalled(World) IN
          /\ navCmd' = IF ret = "await"
                       THEN [navCmd EXCEPT !.getLatestLocation = @ + 1]
                       ELSE navCmd
          /\ returned' = IF ret = "await" THEN "" ELSE ret
    /\ Ran(World)
    /\ UNCHANGED <<wpCmd, connected>>

\* getLatestLocation of the command layer resolves; on success startNavigation
\* is called and runs to its own `await getCurrentLocation()`.
NavigateLocated(ok) ==
    /\ navCmd.getLatestLocation > 0
    /\ navCmd' = [getLatestLocation |-> navCmd.getLatestLocation - 1,
                  startNavigation |-> navCmd.startNavigation + (IF ok THEN 1 ELSE 0)]
    /\ returned' = IF ok THEN "" ELSE "navigate:noLocation"
    /\ Ran(World)
    /\ UNCHANGED <<wpCmd, connected>>

\* mappingService.calculateRoute as the manager awaits it: the service of
\* this repository or, for the contract the manager keeps with any route
\* provider, one that answers null and one that throws.
RouteProviders == {"service", "null", "throws"}

calculateRouteBy(provider, request, mapbox, ors) ==
    CASE provider = "service" -> Value(calculateRoute(request, mapbox, ors))
      [] provider = "null" -> Value(undefined)
      [] provider = "throws" -> Throws

\* startNavigation from its first await to its return.  Between its three
\* awaits (getCurrentLocation, geocode, calculateRoute) it neither reads nor
\* writes the manager, so what they resolve to is taken together, when the
\* last of them that is reached resolves.
startNavigationResumed(w, currentLocation, geocoded, provider, mapbox, ors) ==
    LET located == startNavigationLocated(w, currentLocation) IN
    IF located.ret # "await" THEN located
    ELSE LET afterGeocode == startNavigationGeocoded(located.w, geocoded) IN
         IF afterGeocode.ret # "await" THEN afterGeocode
         ELSE startNavigationRouted(afterGeocode.w, Val(currentLocation),
                 calculateRouteBy(provider,
                                  [origin |-> Val(currentLocation),
                                   destination |-> geocoded.value[1]],
                                  mapbox, ors))

StartNavigationResumed(currentLocation, geocoded, provider, mapbox, ors) ==
    /\ navCmd.startNavigation > 0
    /\ LET r == startNavigationResumed(World, currentLocation, geocoded, provider, mapbox, ors) IN
          /\ Ran(r.w)
          /\ returned' = "startNavigation:" \o r.ret
    /\ navCmd' = [navCmd EXCEPT !.startNavigation = @ - 1]
    /\ UNCHANGED <<wpCmd, connected>>

\* the calls of startNavigation, once it has its route, that may throw
Throwers == {"generateInstructions", "showTextWall", "listener"}

\* startNavigation from its first await to its return, where it gets a
\* location, a destination and a route, and `thrower` throws
StartNavigationThrown(currentLocation, destination, thrower) ==
    /\ navCmd.startNavigation > 0
    /\ LET located == startNavigationLocated(World, Some(currentLocation))
           route == calculateRoute([origin |-> currentLocation, destination |-> destination],
                                   Unconfigured, Unconfigured)
           r == startNavigationRoutedThrowing(located.w, currentLocation, route, thrower)
       IN /\ Ran(r.w)
          /\ returned' = "startNavigation:" \o r.ret
    /\ navCmd' = [navCmd EXCEPT !.startNavigation = @ - 1]
    /\ UNCHANGED <<wpCmd, connected>>

(***************************************************************************)
(* index.ts: the other commands, and session teardown.                     *)
(***************************************************************************)
CancelNavigation(sdk) ==
    /\ connected
    /\ Ran(stopNavigation(World, sdk))
    /\ returned' = ""
    /\ UNCHANGED <<navCmd, wpCmd, connected>>

RestartSession(sdk) ==
    /\ connected
    /\ Ran(restartSession(World, sdk))
    /\ returned' = ""
    /\ UNCHANGED <<navCmd, wpCmd, connected>>

UpdateSettings(newSettings) ==
    /\ connected
    /\ Ran(updateSettings(World, newSettings))
    /\ returned' = ""
    /\ UNCHANGED <<navCmd, wpCmd, connected>>

AddWaypointCalled ==
    /\ connected
    /\ wpCmd.pc = "idle"
    /\ LET r == addWaypointCalled(World) IN
          /\ Ran(r.w)
          /\ wpCmd' = IF r.ret = "await"
                      THEN [pc |-> "geocode", waypoints |-> r.waypoints, request |-> undefined]
                      ELSE IdleWp
          /\ returned' = IF r.ret = "await" THEN "" ELSE "addWaypoint:" \o r.ret
    /\ UNCHANGED <<navCmd, connected>>

AddWaypointGeocoded(geocodeResults) ==
    /\ wpCmd.pc = "geocode"
    /\ LET r == addWaypointGeocoded(World, wpCmd.waypoints, geocodeResults) IN
          /\ Ran(r.w)
          /\ wpCmd' = IF r.ret = "await"
                      THEN [pc |-> "calculateRoute", waypoints |-> <<>>, request |-> r.request]
                      ELSE IdleWp
          /\ returned' = IF r.ret = "await" THEN "" ELSE "addWaypoint:" \o r.ret
    /\ UNCHANGED <<navCmd, connected>>

AddWaypointRouted(provider, mapbox, ors) ==
    /\ wpCmd.pc = "calculateRoute"
    /\ LET r == addWaypointRouted(World,
                   calculateRouteBy(provider, Val(wpCmd.request), mapbox, ors))
           waypoints == Val(wpCmd.request).waypoints
       IN /\ Ran(IF r.ret = "true" /\ Len(waypointsAdded) < MaxWaypointsAdded
                 THEN [r.w EXCEPT !.waypointsAdded = Append(@, waypoints[Len(waypoints)])]
                 ELSE r.w)
          /\ returned' = "addWaypoint:" \o r.ret
    /\ wpCmd' = IdleWp
    /\ UNCHANGED <<navCmd, connected>>

\* onStop: stopNavigation, then the app drops its references to the manager.
OnStop(sdk) ==
    /\ connected
    /\ Ran(stopNavigation(World, sdk))
    /\ connected' = FALSE
    /\ returned' = ""
    /\ UNCHANGED <<navCmd, wpCmd>>

(***************************************************************************)
(* Event loop: location fixes, timers, delayed callbacks, resolved         *)
(* promises.  Fixes stop with the session's connection; timers and         *)
(* promises belong to the process and go on.                               *)
(***************************************************************************)
\* the tick is one of a navigation and more than the threshold from its route
Deviates(location) ==
    /\ navigationState.isNavigating
    /\ Def(navigationState.currentRoute)
    /\ calculateDistanceToRoute(World, location) > ROUTE_DEVIATION_THRESHOLD

\* the runs of deviating ticks once the tick at `location` has come
AfterTick(runs, location) ==
    IF ~navigationState.isNavigating \/ ~Def(navigationState.currentRoute) THEN runs
    ELSE IF Deviates(location)
         THEN [ticks |-> Min(MaxDeviatingRun, runs.ticks + 1),
               ofRoute |-> Min(MaxDeviatingRun, runs.ofRoute + 1)]
         ELSE NoDeviation

\* A fix reaches a live handler of the session, which calls onLocationUpdate.
LocationFix(location, timestamp, random, sdk) ==
    /\ connected
    /\ Def(locationUnsubscriber) \/ orphanHandlers > 0
    /\ LET update == [location |-> location, speed |-> undefined, timestamp |-> timestamp]
       IN Ran([onLocationUpdate(World, update, random, sdk)
                 EXCEPT !.deviation = AfterTick(deviation, location)])
    /\ returned' = ""
    /\ UNCHANGED <<navCmd, wpCmd, connected>>

\* The same, where the fix may request an off-route recalculation while an
\* earlier one is unresolved.
LocationFixOverlapping(location, timestamp, random, sdk) ==
    /\ connected
    /\ Def(locationUnsubscriber) \/ orphanHandlers > 0
    /\ LET update == [location |-> location, speed |-> undefined, timestamp |-> timestamp]
           w == [onLocationUpdate(World, update, random, sdk)
                   EXCEPT !.deviation = AfterTick(deviation, location)]
       IN WithinBoundsOverlapping(w) /\ Commit(w)
    /\ returned' = ""
    /\ UNCHANGED <<navCmd, wpCmd, connected>>

DisplayUpdateTimer ==
    /\ displayUpdateInterval
    /\ Ran(IF World.ns.sessionLocked THEN updateNavigationDisplay(World) ELSE World)
    /\ returned' = ""
    /\ UNCHANGED <<navCmd, wpCmd, connected>>

AiContextTimer ==
    /\ aiContextInterval
    /\ Ran(IF World.ns.sessionLocked /\ Def(World.ns.currentLocation)
           THEN updateAiContext(World) ELSE World)
    /\ returned' = ""
    /\ UNCHANGED <<navCmd, wpCmd, connected>>

\* the callback of setTimeout(..., 100) in stopNavigation and handleDestinationReached
ResubscribeTimeout ==
    /\ timeouts > 0
    /\ Ran(startLocationTracking([World EXCEPT !.timeouts = @ - 1]))
    /\ returned' = ""
    /\ UNCHANGED <<navCmd, wpCmd, connected>>

RecalculateRouteResolved(i, provider, mapbox, ors) ==
    /\ i \in DOMAIN recalculations
    /\ LET w == recalculateRouteRouted([World EXCEPT !.recalculations = RemoveAt(@, i)],
                   calculateRouteBy(provider, recalculations[i], mapbox, ors))
       IN Ran(IF w.emitted = <<"route_recalculated">>
              THEN [w EXCEPT !.deviation.ofRoute = 0] ELSE w)
    /\ returned' = ""
    /\ UNCHANGED <<navCmd, wpCmd, connected>>

\* One updateAiContext call leaves the await `from` (for the await `to`, if
\* any).  At the bound the count stands for more calls too: `more` says
\* whether another call stays at `from`.
Resumed(requests, from, to, more) ==
    LET left == [requests EXCEPT ![from] = IF more THEN @ ELSE @ - 1]
    IN IF to = "" THEN left ELSE [left EXCEPT ![to] = Min(MaxAiRequests, @ + 1)]

AiImageFetched(imagePath, more) ==
    /\ aiRequests.image > 0
    /\ more => aiRequests.image = MaxAiRequests
    /\ LET r == updateAiContextImage(World, imagePath) IN
          Ran([r.w EXCEPT !.aiRequests =
                 Resumed(@, "image", IF r.ret = "await" THEN "detect" ELSE "", more)])
    /\ returned' = ""
    /\ UNCHANGED <<navCmd, wpCmd, connected>>

AiDetected(storeSignDetection, more) ==
    /\ aiRequests.detect > 0
    /\ more => aiRequests.detect = MaxAiRequests
    /\ Ran(updateAiContextDetected(
              [World EXCEPT !.aiRequests = Resumed(@, "detect", "analyze", more)],
              storeSignDetection))
    /\ returned' = ""
    /\ UNCHANGED <<navCmd, wpCmd, connected>>

AiAnalyzed(analysis, more) ==
    /\ aiRequests.analyze > 0
    /\ more => aiRequests.analyze = MaxAiRequests
    /\ Ran(updateAiContextAnalyzed(
              [World EXCEPT !.aiRequests = Resumed(@, "analyze", "", more)], analysis))
    /\ returned' = ""
    /\ UNCHANGED <<navCmd, wpCmd, connected>>

(***************************************************************************)
(* Specifications.  Each takes the handlers of one part of the program,    *)
(* with the inputs that part depends on.                                   *)
(*   Spec         the session's life: navigate, cancel, arrive, go off     *)
(*                route, restart, tear down; commands one after the other  *)
(*   CommandSpec  the same with the commands that change a running         *)
(*                navigation, addWaypoint and updateSettings; no provider  *)
(*                is configured, so every route is the demo route          *)
(*   OverlapSpec  navigate commands that overlap                           *)
(*   ContractSpec startNavigation with any geocoder and any route provider *)
(*                its interface allows, not only those of this repository  *)
(*   SceneSpec    the scene-context refresh and its unresolved requests    *)
(*   ProviderSpec the route requests of a running navigation (off-route    *)
(*                recalculation, addWaypoint) with any route provider the  *)
(*                interface allows                                         *)
(*   FairSpec     Spec with the event loop running its delayed callbacks   *)
(*   ReplacementSpec  routes of different lengths replacing one another    *)
(*                under the instruction pointer                            *)
(*   ThrownSpec   startNavigation with collaborators that throw once it    *)
(*                has its route                                            *)
(*   PendingSpec  off-route recalculations requested while an earlier one  *)
(*                is unresolved                                            *)
(*   FallbackSpec the route requests answered by calculateRoute, with its  *)
(*                providers configured or not, answering or throwing       *)
(*   InstructionSpec, ArrowSpec, AnnouncementSpec  generateInstructions,   *)
(*                getDirectionalArrow and generateVoiceAnnouncement, each  *)
(*                called on its own                                        *)
(***************************************************************************)
StartInputs ==
    {undefined} \cup {Some(x) : x \in StartLocs}
\* what the geocoding request answers: results (none, or one place) or an error
GeocodeResponses(places) ==
    {Value(<<>>), Throws} \cup {Value(<<d>>) : d \in places}
\* what geocode returns for them
GeocodeResults(places) ==
    {Value(geocode(response)) : response \in GeocodeResponses(places)}

Next ==
    \/ NavigateCalled(MaxNavigations)
    \/ \E ok \in BOOLEAN : NavigateLocated(ok)
    \/ \E l \in StartInputs, g \in GeocodeResults(Dests),
          mapbox \in ProviderOutcomes, ors \in ProviderOutcomes :
          StartNavigationResumed(l, g, "service", mapbox, ors)
    \/ \E sdk \in SdkUnsubscribe : CancelNavigation(sdk)
    \/ \E sdk \in SdkUnsubscribe : RestartSession(sdk)
    \/ \E sdk \in SdkUnsubscribe : OnStop(sdk)
    \/ \E l \in Locs, t \in Timestamps, random \in BOOLEAN, sdk \in SdkUnsubscribe :
          LocationFix(l, t, random, sdk)
    \/ DisplayUpdateTimer
    \/ AiContextTimer
    \/ ResubscribeTimeout
    \/ \E i \in 1..MaxRecalculations, mapbox \in ProviderOutcomes, ors \in ProviderOutcomes :
          RecalculateRouteResolved(i, "service", mapbox, ors)

Spec == Init /\ [][Next]_vars

\* The same with the event loop running its timers: a callback given to
\* setTimeout(..., 100) is run.
FairSpec == Spec /\ WF_vars(ResubscribeTimeout)

CommandNext ==
    \/ NavigateCalled(MaxNavigations)
    \/ NavigateLocated(TRUE)
    \/ \E l \in StartInputs, g \in GeocodeResults(Dests) :
          StartNavigationResumed(l, g, "service", Unconfigured, Unconfigured)
    \/ CancelNavigation("all")
    \/ RestartSession("all")
    \/ \E n \in SettingsUpdates : UpdateSettings(n)
    \/ AddWaypointCalled
    \/ \E g \in GeocodeResults(WaypointLocs) : AddWaypointGeocoded(g.value)
    \/ AddWaypointRouted("service", Unconfigured, Unconfigured)
    \/ \E l \in CommandLocs, t \in Timestamps, random \in BOOLEAN : LocationFix(l, t, random, "all")
    \/ DisplayUpdateTimer
    \/ AiContextTimer
    \/ ResubscribeTimeout
    \/ \E i \in 1..MaxRecalculations :
          RecalculateRouteResolved(i, "service", Unconfigured, Unconfigured)

CommandSpec == Init /\ [][CommandNext]_vars

OverlapNext ==
    \/ NavigateCalled(MaxOverlap)
    \/ \E ok \in BOOLEAN : NavigateLocated(ok)
    \/ \E l \in StartInputs, g \in GeocodeResults(Dests),
          mapbox \in ProviderOutcomes, ors \in ProviderOutcomes :
          StartNavigationResumed(l, g, "service", mapbox, ors)
    \/ \E sdk \in SdkUnsubscribe : CancelNavigation(sdk)
    \/ \E sdk \in SdkUnsubscribe : RestartSession(sdk)
    \/ \E l \in Locs, t \in Timestamps, sdk \in SdkUnsubscribe :
          LocationFix(l, t, FALSE, sdk)
    \/ ResubscribeTimeout

OverlapSpec == Init /\ [][OverlapNext]_vars

ContractNext ==
    \/ NavigateCalled(MaxOverlap)
    \/ NavigateLocated(TRUE)
    \/ \E l \in StartInputs, g \in GeocodeResults(Dests) \cup {Throws},
          provider \in RouteProviders :
          StartNavigationResumed(l, g, provider, Unconfigured, Unconfigured)
    \/ \E sdk \in SdkUnsubscribe : CancelNavigation(sdk)
    \/ \E sdk \in SdkUnsubscribe : RestartSession(sdk)
    \/ \E l \in Locs, t \in Timestamps, random \in BOOLEAN, sdk \in SdkUnsubscribe :
          LocationFix(l, t, random, sdk)
    \/ ResubscribeTimeout

ContractSpec == Init /\ [][ContractNext]_vars

SceneNext ==
    \/ NavigateCalled(MaxNavigations)
    \/ NavigateLocated(TRUE)
    \/ \E l \in StartInputs, g \in GeocodeResults(Dests) :
          StartNavigationResumed(l, g, "service", Unconfigured, Unconfigured)
    \/ CancelNavigation("all")
    \/ RestartSession("all")
    \/ \E l \in Locs, t \in Timestamps : LocationFix(l, t, FALSE, "all")
    \/ AiContextTimer
    \/ ResubscribeTimeout
    \/ \E img \in {undefined, Some("image")}, more \in BOOLEAN : AiImageFetched(img, more)
    \/ \E d \in DetectionResults, more \in BOOLEAN : AiDetected(d, more)
    \/ \E a \in Analyses, more \in BOOLEAN : AiAnalyzed(a, more)

SceneSpec == Init /\ [][SceneNext]_vars

ProviderNext ==
    \/ NavigateCalled(MaxNavigations)
    \/ NavigateLocated(TRUE)
    \/ \E l \in StartInputs, g \in GeocodeResults(Dests) :
          StartNavigationResumed(l, g, "service", Unconfigured, Unconfigured)
    \/ RestartSession("all")
    \/ AddWaypointCalled
    \/ \E g \in GeocodeResults(WaypointLocs) : AddWaypointGeocoded(g.value)
    \/ \E provider \in RouteProviders : AddWaypointRouted(provider, Unconfigured, Unconfigured)
    \/ \E l \in ProviderLocs, t \in Timestamps : LocationFix(l, t, FALSE, "all")
    \/ \E i \in 1..MaxRecalculations, provider \in RouteProviders :
          RecalculateRouteResolved(i, provider, Unconfigured, Unconfigured)

ProviderSpec == Init /\ [][ProviderNext]_vars

\* Routes replacing one another under the instruction pointer: a navigation
\* on the demo route, waypoints and off-route recalculations answered with
\* routes of four, two or one instruction, and ticks that may advance the
\* pointer.
ReplacementNext ==
    \/ NavigateCalled(MaxNavigations)
    \/ NavigateLocated(TRUE)
    \/ \E l \in StartInputs, g \in GeocodeResults(Dests) :
          StartNavigationResumed(l, g, "service", Unconfigured, Unconfigured)
    \/ AddWaypointCalled
    \/ \E g \in GeocodeResults(WaypointLocs) : AddWaypointGeocoded(g.value)
    \/ \E mapbox \in ReplacementOutcomes : AddWaypointRouted("service", mapbox, Unconfigured)
    \/ \E l \in ProviderLocs, t \in Timestamps, random \in BOOLEAN :
          LocationFix(l, t, random, "all")
    \/ \E i \in 1..MaxRecalculations, mapbox \in ReplacementOutcomes :
          RecalculateRouteResolved(i, "service", mapbox, Unconfigured)

ReplacementSpec == Init /\ [][ReplacementNext]_vars

\* The three route requests of the manager answered by calculateRoute, each
\* of its two providers configured or not, answering or throwing.
FallbackNext ==
    \/ NavigateCalled(MaxNavigations)
    \/ NavigateLocated(TRUE)
    \/ \E l \in StartInputs, g \in GeocodeResults(Dests),
          mapbox \in ProviderOutcomes, ors \in OrsOutcomes :
          StartNavigationResumed(l, g, "service", mapbox, ors)
    \/ AddWaypointCalled
    \/ \E g \in GeocodeResults(WaypointLocs) : AddWaypointGeocoded(g.value)
    \/ \E mapbox \in ProviderOutcomes, ors \in OrsOutcomes :
          AddWaypointRouted("service", mapbox, ors)
    \/ \E l \in ProviderLocs, t \in Timestamps : LocationFix(l, t, FALSE, "all")
    \/ \E i \in 1..MaxRecalculations, mapbox \in ProviderOutcomes, ors \in OrsOutcomes :
          RecalculateRouteResolved(i, "service", mapbox, ors)

FallbackSpec == Init /\ [][FallbackNext]_vars

\* startNavigation with calls that throw once it has its route.
ThrownNext ==
    \/ NavigateCalled(MaxNavigations)
    \/ NavigateLocated(TRUE)
    \/ \E l \in StartInputs, g \in GeocodeResults(Dests) \cup {Throws} :
          StartNavigationResumed(l, g, "service", Unconfigured, Unconfigured)
    \/ \E l \in StartLocs, d \in Dests, thrower \in Throwers :
          StartNavigationThrown(l, d, thrower)
    \/ CancelNavigation("all")
    \/ RestartSession("all")
    \/ \E l \in Locs, t \in Timestamps : LocationFix(l, t, FALSE, "all")
    \/ ResubscribeTimeout

ThrownSpec == Init /\ [][ThrownNext]_vars

\* Off-route recalculations that overlap: a navigation on the demo route,
\* ticks on and off the route, and the requests resolving in any order.
PendingNext ==
    \/ NavigateCalled(MaxNavigations)
    \/ NavigateLocated(TRUE)
    \/ \E l \in StartInputs, g \in GeocodeResults(Dests) :
          StartNavigationResumed(l, g, "service", Unconfigured, Unconfigured)
    \/ \E l \in PendingLocs, t \in Timestamps : LocationFixOverlapping(l, t, FALSE, "all")
    \/ \E i \in 1..MaxPending :
          RecalculateRouteResolved(i, "service", Unconfigured, Unconfigured)

PendingSpec == Init /\ [][PendingNext]_vars

(***************************************************************************)
(* Functions of the services, each followed on its own: a call with an     *)
(* argument of its domain, and its return.                                 *)
(***************************************************************************)
Called(fn, arg) == [fn |-> fn, arg |-> arg, returned |-> FALSE, result |-> undefined]

Returned(result) == [applied EXCEPT !.returned = TRUE, !.result = result]

\* generateInstructions(route), for the legs of the route
InstructionInit ==
    /\ Constructed
    /\ applied \in {Called("generateInstructions", legs) : legs \in RouteLegs}

GenerateInstructions ==
    /\ applied.fn = "generateInstructions"
    /\ ~applied.returned
    /\ applied' = Returned(instructionsOfLegs(applied.arg))
    /\ UNCHANGED sessionVars

InstructionNext == GenerateInstructions

InstructionSpec == InstructionInit /\ [][InstructionNext]_vars

\* getDirectionalArrow(bearing)
ArrowInit ==
    /\ Constructed
    /\ applied \in {Called("getDirectionalArrow", bearing) : bearing \in Bearings}

GetDirectionalArrow ==
    /\ applied.fn = "getDirectionalArrow"
    /\ ~applied.returned
    /\ applied' = Returned(getDirectionalArrow(applied.arg))
    /\ UNCHANGED sessionVars

ArrowNext == GetDirectionalArrow

ArrowSpec == ArrowInit /\ [][ArrowNext]_vars

\* generateVoiceAnnouncement(instruction, distance, units, settings): the
\* text of formatInstruction, which is never empty, or null
AnnouncementInit ==
    /\ Constructed
    /\ applied \in {Called("generateVoiceAnnouncement",
                            [distance |-> d,
                             settings |-> [voice_guidance |-> v, announcement_frequency |-> f]]) :
                        d \in Distances, v \in BOOLEAN, f \in AnnouncementFrequencies}

GenerateVoiceAnnouncement ==
    /\ applied.fn = "generateVoiceAnnouncement"
    /\ ~applied.returned
    /\ applied' = Returned(IF generateVoiceAnnouncement(applied.arg.distance, applied.arg.settings)
                           THEN Some("announcement")
                           ELSE undefined)
    /\ UNCHANGED sessionVars

AnnouncementNext == GenerateVoiceAnnouncement

AnnouncementSpec == AnnouncementInit /\ [][AnnouncementNext]_vars

(***************************************************************************)
(* Properties of restartSession.                                           *)
(***************************************************************************)
\* a step in which restartSession runs
RestartSessionStep == \E sdk \in SdkUnsubscribe : RestartSession(sdk)

\* the fields of the manager, of all that w holds
Manager(w) ==
    [f \in {"ns", "settings", "instructions", "currentInstructionIndex",
            "lastAnnouncedDistance", "offRouteCheckCount", "lastLocationUpdate",
            "displayUpdateInterval", "aiContextInterval", "locationUnsubscriber",
            "currentAiContext", "currentStoreSignDetection"} |-> w[f]]

\* C1: restartSession, called in any reachable state, leaves the session
\* unlocked, not navigating and without a route, and calling it again
\* straight away changes no field of the manager.
RestartSessionIdempotent ==
    [][RestartSessionStep =>
          /\ ~navigationState'.sessionLocked
          /\ ~navigationState'.isNavigating
          /\ navigationState'.currentRoute = undefined
          /\ \A sdk \in SdkUnsubscribe :
                Manager(restartSession(World', sdk)) = Manager(World')]_vars

\* restartSession has run on a navigation that had gone off route
RestartedFromOffRoute ==
    /\ emitted = <<"session_restarted">>
    /\ navigationState.isOffRoute
    /\ ~navigationState.sessionLocked

\* C5: when restartSession returns, no display refresh timer and no
\* scene-context timer is scheduled and the manager holds no location
\* subscription.
RestartSessionStopsActivities ==
    [][RestartSessionStep =>
          /\ ~displayUpdateInterval'
          /\ ~aiContextInterval'
          /\ locationUnsubscriber' = undefined]_vars

\* restartSession has run after a navigation was started, and nothing is scheduled
ActivitiesStoppedByRestart ==
    /\ emitted = <<"session_restarted">>
    /\ instructions # <<>>
    /\ ~displayUpdateInterval /\ ~aiContextInterval /\ ~Def(locationUnsubscriber)

\* C6: restartSession clears the route, the instructions and the counters:
\* after it, currentRoute is undefined, the instruction list is empty, the
\* pointer is 0, currentStepIndex and totalSteps are 0, the off-route flag
\* is false and the off-route counter is 0.
RestartSessionClearsEverything ==
    [][RestartSessionStep =>
          /\ navigationState'.currentRoute = undefined
          /\ instructions' = <<>>
          /\ currentInstructionIndex' = 0
          /\ navigationState'.currentStepIndex = 0
          /\ navigationState'.totalSteps = 0
          /\ ~navigationState'.isOffRoute
          /\ offRouteCheckCount' = 0]_vars

(***************************************************************************)
(* Properties of the session lock.                                         *)
(***************************************************************************)
\* C2: a locked session stays locked through stopNavigation, arrival,
\* recalculation, addWaypoint, updateSettings and location ticks: only a
\* step of restartSession takes sessionLocked from true to false.
SessionLockPersists ==
    [][navigationState.sessionLocked /\ ~navigationState'.sessionLocked
          => RestartSessionStep]_vars

\* the session is still locked when the destination has been reached
LockedAfterArrival ==
    /\ emitted = <<"destination_reached">>
    /\ navigationState.sessionLocked
    /\ ~navigationState.isNavigating

\* C3: between two navigation_started events of a session there is a
\* restartSession, however navigate commands, cancel commands and location
\* ticks interleave: at most one navigation has started since the last restart.
OneNavigationPerLock == startedSinceRestart <= 1

\* C4: once the session has ended (onStop), the display refresh timer, the
\* scene-context timer and the location subscription of its manager are
\* stopped, and no re-subscription is under way.
TeardownStopsEverything ==
    ~connected =>
        /\ ~displayUpdateInterval
        /\ ~aiContextInterval
        /\ ~Def(locationUnsubscriber)
        /\ timeouts = 0

(***************************************************************************)
(* Properties of startNavigation.                                          *)
(***************************************************************************)
\* a step in which startNavigation gets no current location
LocationFailureStep ==
    \E g \in GeocodeResults(Dests), mapbox \in ProviderOutcomes, ors \in ProviderOutcomes :
        StartNavigationResumed(undefined, g, "service", mapbox, ors)

\* C7: startNavigation whose location fetch fails returns false and leaves
\* isNavigating, sessionLocked and all the rest of the manager as they
\* were: no route, no timer, no subscription, no request, no event.
StartWithoutLocationFails ==
    [][LocationFailureStep =>
          /\ returned' = "startNavigation:false:location"
          /\ UNCHANGED <<mgrVars, loopVars>>
          /\ emitted' = <<>>]_vars

\* startNavigation has failed for want of a location while the navigation
\* of an overlapping command was running
StartFailedForLocation ==
    /\ returned = "startNavigation:false:location"
    /\ navigationState.isNavigating
    /\ navigationState.sessionLocked

\* the geocoder or the route provider fails startNavigation
Failing(geocoded, provider) ==
    geocoded.kind = "throws" \/ Len(geocoded.value) = 0 \/ provider # "service"

\* C8: startNavigation does not throw: when the geocoder answers nothing or
\* throws, or the route provider answers null or throws, it returns false
\* and NavigationState is as it was.
StartNavigationNeverThrows ==
    [][\A l \in StartLocs, g \in GeocodeResults(Dests) \cup {Throws},
          provider \in RouteProviders :
          StartNavigationResumed(Some(l), g, provider, Unconfigured, Unconfigured)
              /\ Failing(g, provider)
          => /\ returned' \in {"startNavigation:false:geocode",
                                "startNavigation:false:route",
                                "startNavigation:false:error"}
             /\ navigationState' = navigationState]_vars

\* startNavigation has caught an exception of a collaborator while the
\* navigation of an overlapping command was running
StartFailedForException ==
    /\ returned = "startNavigation:false:error"
    /\ navigationState.isNavigating

\* C9: after a successful startNavigation totalSteps is the length of the
\* generated instruction list, currentStepIndex is 1 and currentInstruction
\* is the first generated instruction.
StepCountsAfterStart ==
    returned = "startNavigation:true" =>
        /\ instructions = generateInstructions(Val(navigationState.currentRoute))
        /\ navigationState.totalSteps = Len(instructions)
        /\ navigationState.currentStepIndex = 1
        /\ navigationState.currentInstruction = Some(instructions[1])

\* startNavigation has succeeded with the route of a provider
StartedWithProviderRoute ==
    /\ returned = "startNavigation:true"
    /\ Val(navigationState.currentRoute).legs \in ProviderLegs

Occurrences(events, type) == Cardinality({i \in DOMAIN events : events[i] = type})

\* the fix is within the destination threshold of the end of the route of a
\* running navigation
Arrives(location) ==
    /\ navigationState.isNavigating
    /\ Def(navigationState.currentRoute)
    /\ calculateDistance(location, Val(navigationState.currentRoute).endLocation)
          <= DESTINATION_THRESHOLD

\* a step in which onLocationUpdate runs for such a fix
ArrivalTick ==
    \E l \in Locs, t \in Timestamps, random \in BOOLEAN, sdk \in SdkUnsubscribe :
        Arrives(l) /\ LocationFix(l, t, random, sdk)

\* C11: while navigating, every location update within 30 m of the route's
\* end sets isNavigating to false, leaves sessionLocked true and emits
\* destination_reached, whatever the instruction pointer, the off-route
\* flag and the off-route counter are.
ArrivalEndsNavigation ==
    [][ArrivalTick =>
          /\ ~navigationState'.isNavigating
          /\ navigationState'.sessionLocked
          /\ Occurrences(emitted', "destination_reached") = 1]_vars

\* arrival exactly at the threshold, with the off-route flag set, the
\* counter at its maximum and the pointer advanced
ArrivedWhileOffRoute ==
    /\ emitted = <<"destination_reached">>
    /\ ~navigationState.isNavigating
    /\ calculateDistance(Val(navigationState.currentLocation),
                         Val(navigationState.currentRoute).endLocation)
          = DESTINATION_THRESHOLD
    /\ navigationState.isOffRoute
    /\ offRouteCheckCount >= MAX_OFF_ROUTE_CHECKS
    /\ currentInstructionIndex > 0

\* C12: a tick that detects arrival does nothing else of the tick pipeline:
\* routeProgress, the off-route counter and flag, the instruction pointer,
\* currentStepIndex and the last-announced marker keep their values, the
\* only event is destination_reached and no recalculation is requested.
ArrivalShortCircuits ==
    [][ArrivalTick =>
          /\ navigationState'.routeProgress = navigationState.routeProgress
          /\ offRouteCheckCount' = offRouteCheckCount
          /\ navigationState'.isOffRoute = navigationState.isOffRoute
          /\ currentInstructionIndex' = currentInstructionIndex
          /\ navigationState'.currentStepIndex = navigationState.currentStepIndex
          /\ navigationState'.currentInstruction = navigationState.currentInstruction
          /\ lastAnnouncedDistance' = lastAnnouncedDistance
          /\ instructions' = instructions
          /\ navigationState'.currentRoute = navigationState.currentRoute
          /\ emitted' = <<"destination_reached">>
          /\ recalculations' = recalculations]_vars

\* arrival on a fix that is off the route and would have been the third
\* deviating one in a row, before any announcement was made
ArrivedBeforeThirdDeviation ==
    /\ emitted = <<"destination_reached">>
    /\ ~navigationState.isNavigating
    /\ calculateDistanceToRoute(World, Val(navigationState.currentLocation))
          > ROUTE_DEVIATION_THRESHOLD
    /\ offRouteCheckCount = MAX_OFF_ROUTE_CHECKS - 1
    /\ ~navigationState.isOffRoute
    /\ recalculations = <<>>

(***************************************************************************)
(* Properties of the location tick: off-route detection.                   *)
(***************************************************************************)
\* a step in which onLocationUpdate runs for a fix at `location`
Tick(location) ==
    \E t \in Timestamps, random \in BOOLEAN, sdk \in SdkUnsubscribe :
        LocationFix(location, t, random, sdk)

\* the step sets the off-route flag
FlagRaised == ~navigationState.isOffRoute /\ navigationState'.isOffRoute

\* a tick of a navigation, flagged off route, within the threshold of the route
BackOnRoute(location) ==
    /\ navigationState.isNavigating
    /\ Def(navigationState.currentRoute)
    /\ navigationState.isOffRoute
    /\ calculateDistanceToRoute(World, location) <= ROUTE_DEVIATION_THRESHOLD

\* C13 as stated: the flag is set only on the tick that is the third in a row
\* of navigating ticks more than 50 m from the route, where only a tick
\* within 50 m starts the row again; the next tick within 50 m clears the
\* flag and sets the counter to 0.  Both halves fail: a resolved
\* recalculation starts the program's count again too, and a tick within
\* 50 m of the route that is also an arrival clears nothing.
OffRouteFlagFollowsTicks ==
    [][/\ FlagRaised =>
            /\ \E l \in Locs : Tick(l)
            /\ deviation'.ticks = MAX_OFF_ROUTE_CHECKS
       /\ \A l \in Locs : BackOnRoute(l) /\ Tick(l) =>
            /\ ~navigationState'.isOffRoute
            /\ offRouteCheckCount' = 0]_vars

\* C13, amended: the flag is set only on the tick that is the third in a row
\* of navigating ticks more than 50 m from the route, the row being counted
\* from the last tick within 50 m, the start of the navigation or the last
\* resolved recalculation; the next navigating tick within 50 m that is not
\* an arrival clears the flag and sets the counter to 0.
OffRouteFlagFollowsRouteTicks ==
    [][/\ FlagRaised =>
            /\ \E l \in Locs : Tick(l)
            /\ deviation'.ofRoute = MAX_OFF_ROUTE_CHECKS
       /\ \A l \in Locs : BackOnRoute(l) /\ ~Arrives(l) /\ Tick(l) =>
            /\ ~navigationState'.isOffRoute
            /\ offRouteCheckCount' = 0]_vars

\* the flag was set by the third deviating tick since a recalculation
\* resolved, which is not the third deviating tick in a row
FlaggedAgainAfterRecalculation ==
    /\ navigationState.isOffRoute
    /\ Occurrences(emitted, "off_route_detected") = 1
    /\ deviation.ofRoute = MAX_OFF_ROUTE_CHECKS
    /\ deviation.ticks > MAX_OFF_ROUTE_CHECKS

\* What C14 asks of a deviating tick that is the n-th of its run: no
\* off_route_detected before the third, exactly one (and one route request)
\* on the third, and none, with no route request, on a later one while the
\* flag is set.
RunAnnouncedOnce(n) ==
    /\ n < MAX_OFF_ROUTE_CHECKS =>
          /\ Occurrences(emitted', "off_route_detected") = 0
          /\ recalculations' = recalculations
    /\ n = MAX_OFF_ROUTE_CHECKS =>
          /\ Occurrences(emitted', "off_route_detected") = 1
          /\ Len(recalculations') = Len(recalculations) + 1
    /\ n > MAX_OFF_ROUTE_CHECKS /\ navigationState.isOffRoute =>
          /\ Occurrences(emitted', "off_route_detected") = 0
          /\ recalculations' = recalculations

\* C14 as stated: in a run of consecutive location updates each more than
\* 50 m from the route's reference point, off_route_detected is emitted once,
\* on the third and not earlier, and the later updates of the run, while the
\* flag is set, emit none and request no recalculation.  It fails where the
\* third update of the run is an arrival, and where a recalculation
\* resolved within the run.
DeviatingRunAnnouncedOnce ==
    [][\A l \in Locs : Deviates(l) /\ Tick(l) => RunAnnouncedOnce(deviation.ticks + 1)]_vars

\* C14, amended: the same of a run of navigating updates none of which is an
\* arrival, the run being counted from the last update within 50 m, the
\* start of the navigation or the last resolved recalculation.
DeviatingRouteRunAnnouncedOnce ==
    [][\A l \in Locs : Deviates(l) /\ ~Arrives(l) /\ Tick(l) =>
            RunAnnouncedOnce(deviation.ofRoute + 1)]_vars

\* the fourth deviating tick of a run has come, the flag set by the third
\* and its route request still outstanding
FourthDeviatingTick ==
    /\ navigationState.isNavigating
    /\ navigationState.isOffRoute
    /\ deviation.ofRoute > MAX_OFF_ROUTE_CHECKS
    /\ offRouteCheckCount > MAX_OFF_ROUTE_CHECKS
    /\ Occurrences(emitted, "off_route_detected") = 0
    /\ Len(recalculations) = 1

(***************************************************************************)
(* Properties of the off-route recalculation.                              *)
(***************************************************************************)
\* C15: the step in which an off-route recalculation resolves with a route
\* puts in place that route together with the instruction list generated
\* from it, sets the pointer to 0, clears the off-route flag, sets the
\* off-route counter to 0 and emits route_recalculated, whatever ticks came
\* while the request was outstanding.
RecalculationSwapsRoute ==
    [][\A i \in 1..MaxRecalculations, mapbox \in ProviderOutcomes, ors \in ProviderOutcomes :
          /\ Len(recalculations') < Len(recalculations)
          /\ RecalculateRouteResolved(i, "service", mapbox, ors)
          =>  /\ navigationState'.currentRoute
                    = calculateRoute(recalculations[i], mapbox, ors)
              /\ Def(navigationState'.currentRoute)
              /\ instructions' = generateInstructions(Val(navigationState'.currentRoute))
              /\ currentInstructionIndex' = 0
              /\ ~navigationState'.isOffRoute
              /\ offRouteCheckCount' = 0
              /\ emitted' = <<"route_recalculated">>]_vars

\* a recalculation has resolved, for a navigation still running, after a
\* later tick at another place than the one the route was requested from
\* had cleared the flag and moved the pointer
RecalculatedAfterLaterTicks ==
    /\ emitted = <<"route_recalculated">>
    /\ shown = <<"Route recalculated">>
    /\ navigationState.isNavigating
    /\ Val(navigationState.currentLocation) # Val(navigationState.currentRoute).startLocation
    /\ navigationState.currentStepIndex > 1
    /\ currentInstructionIndex = 0

\* a step in which the i-th outstanding recalculation fails: the route
\* provider answers null, or throws
RecalculationFails(i, provider) ==
    /\ provider # "service"
    /\ Len(recalculations') < Len(recalculations)
    /\ RecalculateRouteResolved(i, provider, Unconfigured, Unconfigured)

\* the route and its instructions stay in place, and the flag as it is
StaleRouteKept ==
    /\ navigationState' = navigationState
    /\ instructions' = instructions
    /\ currentInstructionIndex' = currentInstructionIndex
    /\ offRouteCheckCount' = offRouteCheckCount
    /\ emitted' = <<>>

\* a tick that comes while the flag is set requests no route
NoRequestWhileFlagged ==
    \A l \in ProviderLocs :
        navigationState.isOffRoute /\ Tick(l) => recalculations' = recalculations

RecalculationFailureKeepsRoute ==
    [][/\ \A i \in 1..MaxRecalculations, provider \in RouteProviders :
            RecalculationFails(i, provider) => StaleRouteKept
       /\ NoRequestWhileFlagged]_vars

\* a recalculation has failed without a word, the navigation flagged off
\* route and no request outstanding
RecalculationFailedSilently ==
    /\ navigationState.isNavigating
    /\ navigationState.isOffRoute
    /\ recalculations = <<>>
    /\ emitted = <<>>
    /\ shown = <<>>
    /\ returned = ""

(***************************************************************************)
(* Properties of addWaypoint.                                              *)
(***************************************************************************)
\* a step of addWaypoint in which it cannot go on: called without a route
\* or without a location, the geocoder has no result for the waypoint, or
\* the route provider answers null or throws
AddWaypointFails ==
    \/ /\ ~Def(navigationState.currentRoute) \/ ~Def(navigationState.currentLocation)
       /\ AddWaypointCalled
    \/ AddWaypointGeocoded(<<>>)
    \/ \E provider \in RouteProviders \ {"service"} :
          AddWaypointRouted(provider, Unconfigured, Unconfigured)

\* C17: addWaypoint returns false and leaves every field of the manager as
\* it is when there is no route or no location, when the waypoint cannot be
\* geocoded and when the route request fails; it emits nothing then.
AddWaypointFailureChangesNothing ==
    [][AddWaypointFails =>
          /\ returned' = "addWaypoint:false"
          /\ UNCHANGED <<mgrVars, loopVars>>
          /\ emitted' = <<>>
          /\ wpCmd' = IdleWp]_vars

\* addWaypoint has returned false to a navigation that is running, flagged
\* off route with its recalculation outstanding
AddWaypointFailedOffRoute ==
    /\ returned = "addWaypoint:false"
    /\ navigationState.isNavigating
    /\ navigationState.isOffRoute
    /\ Len(recalculations) = 1

\* C18: waypoints accumulate: the route request of an addWaypoint carries
\* the waypoints added before it, in order, followed by the new one, and
\* its destination is the destination startNavigation was given.  It fails
\* at the second addWaypoint: every route the provider answers has an empty
\* waypoint list, so the request carries the new waypoint alone.
WaypointsAccumulate ==
    [][\A g \in GeocodeResults(WaypointLocs) :
          AddWaypointGeocoded(g.value) /\ Def(wpCmd'.request) =>
              LET request == Val(wpCmd'.request) IN
              /\ Len(request.waypoints) > Len(waypointsAdded)
              /\ SubSeq(request.waypoints, 1, Len(waypointsAdded)) = waypointsAdded
              /\ request.waypoints[Len(request.waypoints)] = g.value[1]
              /\ request.destination \in Dests]_vars

\* C19: the step in which addWaypoint returns true puts in place the route
\* answered for its request together with the instruction list generated
\* from that route and the pointer 0, and emits route_recalculated once.
AddWaypointSwapsRoute ==
    [][/\ wpCmd.pc = "calculateRoute"
       /\ AddWaypointRouted("service", Unconfigured, Unconfigured)
       /\ returned' = "addWaypoint:true"
       => /\ navigationState'.currentRoute
                = calculateRoute(Val(wpCmd.request), Unconfigured, Unconfigured)
          /\ Def(navigationState'.currentRoute)
          /\ instructions' = generateInstructions(Val(navigationState'.currentRoute))
          /\ currentInstructionIndex' = 0
          /\ emitted' = <<"route_recalculated">>]_vars

\* addWaypoint has returned true to a navigation whose pointer had advanced
AddWaypointSucceededMidRoute ==
    /\ returned = "addWaypoint:true"
    /\ emitted = <<"route_recalculated">>
    /\ navigationState.isNavigating
    /\ navigationState.currentStepIndex > 1
    /\ currentInstructionIndex = 0

(***************************************************************************)
(* Properties of stopNavigation.                                           *)
(***************************************************************************)
\* a step in which stopNavigation runs: the cancel command, or onStop
StopNavigationStep ==
    \E sdk \in SdkUnsubscribe : CancelNavigation(sdk) \/ OnStop(sdk)

\* C20: stopNavigation called while no navigation runs changes no field,
\* timer, subscription or request and emits nothing; called while one runs
\* it sets isNavigating to false, leaves the session locked and the route
\* in place, and emits navigation_cancelled once.
StopNavigationOnlyWhenNavigating ==
    [][StopNavigationStep =>
          IF ~navigationState.isNavigating
          THEN /\ UNCHANGED <<mgrVars, loopVars>>
               /\ emitted' = <<>>
               /\ shown' = <<>>
          ELSE /\ ~navigationState'.isNavigating
               /\ navigationState'.sessionLocked
               /\ Def(navigationState'.currentRoute)
               /\ navigationState'.currentRoute = navigationState.currentRoute
               /\ emitted' = <<"navigation_cancelled">>]_vars

\* a navigation that had gone off route has been cancelled
CancelledOffRoute ==
    /\ emitted = <<"navigation_cancelled">>
    /\ ~navigationState.isNavigating
    /\ navigationState.sessionLocked
    /\ Def(navigationState.currentRoute)
    /\ navigationState.isOffRoute
    /\ connected

\* stopNavigation has just stopped a navigation, for the cancel command
NavigationCancelled == connected /\ emitted = <<"navigation_cancelled">>

\* the manager holds a subscription of reduced accuracy, and its fixes reach
\* onLocationUpdate
TrackingReduced == connected /\ locationUnsubscriber = Some("reduced")

\* the manager holds a subscription whose fixes reach onLocationUpdate: of
\* reduced accuracy, unless a navigation runs
TrackingLive ==
    /\ connected
    /\ Def(locationUnsubscriber)
    /\ ~navigationState.isNavigating => locationUnsubscriber = Some("reduced")

LiveSubscriptions == (IF Def(locationUnsubscriber) THEN 1 ELSE 0) + orphanHandlers

\* C22: location subscriptions are swapped, not stacked: at every moment at
\* most one subscription of the session delivers fixes to onLocationUpdate.
\* It fails as soon as startNavigation follows session setup:
\* startLocationTracking subscribes without calling the unsubscribe function
\* it holds.
SubscriptionsSwapped == LiveSubscriptions <= 1


\* the manager as the fix (l, t) leaves it when no pipeline runs: the
\* position, the speed and the time of the fix stored, nothing else touched
FixStored(l, t) ==
    [Manager(World) EXCEPT !.ns.currentLocation = Some(l),
                           !.ns.currentSpeed = undefined,
                           !.lastLocationUpdate = Some(t)]

\* C23: every onLocationUpdate, in any state, stores the location, speed
\* and timestamp of the update; with the session locked and no navigation
\* running it still draws the display; and without a navigation running it
\* does nothing else to the manager, requests nothing and emits nothing.
LocationUpdateAlwaysStored ==
    [][\A l \in Locs, t \in Timestamps :
          /\ navCmd' = navCmd /\ wpCmd' = wpCmd /\ connected'
          /\ \E random \in BOOLEAN, sdk \in SdkUnsubscribe : LocationFix(l, t, random, sdk)
          =>
             /\ navigationState'.currentLocation = Some(l)
             /\ navigationState'.currentSpeed = undefined
             /\ lastLocationUpdate' = Some(t)
             /\ navigationState.sessionLocked /\ ~navigationState.isNavigating => displayed'
             /\ ~navigationState.isNavigating =>
                   /\ Manager(World') = FixStored(l, t)
                   /\ UNCHANGED loopVars
                   /\ emitted' = <<>>
                   /\ shown' = <<>>
                   /\ displayed' = navigationState.sessionLocked]_vars

\* a fix has come to a session stopped off route: stored, and the display drawn
FixStoredWhileStopped ==
    /\ connected
    /\ navigationState.sessionLocked
    /\ ~navigationState.isNavigating
    /\ navigationState.isOffRoute
    /\ navigationState.currentLocation = Some(111)
    /\ navigationState.currentSpeed = undefined
    /\ Def(lastLocationUpdate)
    /\ displayed
    /\ emitted = <<>>
    /\ shown = <<>>

\* C24: whenever there are instructions, the instruction pointer is one of
\* their indices: 0 <= pointer <= length - 1, whatever ticks, off-route
\* recalculations and waypoint replacements have come, shorter lists included.
PointerWithinInstructions ==
    instructions # <<>> =>
        /\ 0 <= currentInstructionIndex
        /\ currentInstructionIndex <= Len(instructions) - 1

\* an off-route recalculation has replaced the four demo instructions, of
\* which the third was current, by a list too short to have a third
ReplacedByShorterList ==
    /\ emitted = <<"route_recalculated">>
    /\ shown = <<"Route recalculated">>
    /\ navigationState.currentStepIndex = 3
    /\ Len(instructions) < 3
    /\ currentInstructionIndex = 0

\* C25: the voice announcement of an instruction is spoken at most once
\* over the ticks that find it current at the same distance to its
\* maneuver; it is spoken again only for an instruction that has become
\* current since: after the pointer has moved or a new list is in place.
AnnouncedOncePerInstruction == announcements <= 1

\* two ticks in a row have found the first instruction current, and its
\* announcement has been spoken once
SecondTickSilent ==
    /\ navigationState.isNavigating
    /\ currentInstructionIndex = 0
    /\ deviation.ticks = 2
    /\ recalculations = <<>>
    /\ announcements = 1
    /\ lastAnnouncedDistance = DistanceToTurn

(***************************************************************************)
(* Properties of the scene-context refresh.                                *)
(***************************************************************************)
\* a step of a scene-context refresh: the timer, or one of its awaits resolved
SceneStep ==
    \/ AiContextTimer
    \/ \E img \in {undefined, Some("image")}, more \in BOOLEAN : AiImageFetched(img, more)
    \/ \E d \in DetectionResults, more \in BOOLEAN : AiDetected(d, more)
    \/ \E a \in Analyses, more \in BOOLEAN : AiAnalyzed(a, more)

\* a refresh is under way
RefreshPending == aiRequests.image + aiRequests.detect + aiRequests.analyze > 0

\* what a refresh has to leave alone
NavigationFields ==
    <<navigationState.isNavigating, navigationState.sessionLocked,
      navigationState.currentRoute, instructions, currentInstructionIndex,
      navigationState.isOffRoute, offRouteCheckCount>>

\* C26: a scene-context refresh starts only with the session locked and a
\* current location known; no step of it, whatever the image, the
\* detection and the analysis turn out to be, changes isNavigating,
\* sessionLocked, the route, the instructions, the pointer, the off-route
\* flag or the off-route counter; and a tick that comes while a refresh is
\* pending is processed: its location is stored, an arrival ends the
\* navigation, and the refresh stays pending.
SceneRefreshLeavesNavigation ==
    [][/\ aiRequests'.image > aiRequests.image =>
             navigationState'.sessionLocked /\ Def(navigationState'.currentLocation)
       /\ returned' = "" /\ SceneStep => UNCHANGED NavigationFields
       /\ \A l \in Locs :
             RefreshPending /\ returned' = "" /\ Tick(l) =>
                /\ aiRequests' = aiRequests
                /\ navigationState'.currentLocation = Some(l)
                /\ Arrives(l) =>
                      /\ ~navigationState'.isNavigating
                      /\ emitted' = <<"destination_reached">>]_vars

\* the third deviating tick in a row has come, and has been counted and
\* announced, while the analysis of a refresh was pending
OffRouteWhileRefreshPending ==
    /\ aiRequests.analyze > 0
    /\ emitted = <<"off_route_detected">>
    /\ navigationState.isOffRoute
    /\ navigationState.currentLocation = Some(101)

\* C27: the descriptive text of the scene context is always the text it
\* had at the start, the last description fetched with success, or the
\* coordinate-only fallback description; a failed refresh leaves one of these.
SceneContextKeptOrFallback ==
    currentAiContext \in {"Loading surroundings...", "analysis", "fallback"}

(***************************************************************************)
(* Properties of the mapping service.                                      *)
(***************************************************************************)
\* the legs of the route the fallback chain has to answer
FallbackLegs(mapbox, ors) ==
    IF mapbox.kind = "route" THEN mapbox.legs
    ELSE IF ors.kind = "route" THEN ors.legs
    ELSE DemoLegs

\* the manager holds a route with these legs
RouteInPlace(legs) ==
    /\ Def(navigationState'.currentRoute)
    /\ Val(navigationState'.currentRoute).legs = legs

StepsBefore(legs, i) == SumSeq([m \in 1..(i - 1) |-> Len(legs[m])])

\* C29: generateInstructions answers one instruction for each step of the
\* route, in the order of the legs and, within a leg, of its steps, none of
\* them marked as the destination, and after them the arrival instruction,
\* marked as the destination and of distance 0; for a route without steps
\* it answers the arrival instruction alone.  The generateInstructions of
\* the session, which keeps the number of steps of each leg only, answers
\* as many, marked the same.
InstructionsOnePerStep ==
    applied.fn = "generateInstructions" /\ applied.returned =>
        LET legs == applied.arg
            result == applied.result
            total == StepsBefore(legs, Len(legs) + 1)
            counted == generateInstructions(Route(0, 141, [m \in 1..Len(legs) |-> Len(legs[m])]))
        IN /\ Len(result) = total + 1
           /\ \A i \in 1..Len(legs) : \A j \in 1..Len(legs[i]) :
                 LET k == StepsBefore(legs, i) + j
                 IN /\ result[k].distance = legs[i][j].distance
                    /\ result[k].instruction = legs[i][j].instructions
                    /\ ~Def(result[k].isDestination)
           /\ result[total + 1].isDestination = Some(TRUE)
           /\ result[total + 1].distance = 0
           /\ Len(counted) = Len(result)
           /\ \A k \in 1..Len(result) :
                 counted[k].isDestination = Def(result[k].isDestination)

\* the instructions of a route of a leg without steps, a leg of one step
\* and a leg of two have been generated
InstructionsOfThreeLegs ==
    /\ applied.fn = "generateInstructions"
    /\ applied.returned
    /\ Len(applied.arg) = 3
    /\ Len(applied.arg[1]) = 0
    /\ Len(applied.arg[2]) = 1
    /\ Len(applied.arg[3]) = 2
    /\ applied.arg[3][1] # applied.arg[3][2]
    /\ Len(applied.result) = 4

(***************************************************************************)
(* Properties of the location utilities.                                   *)
(***************************************************************************)
\* C30: the arrow of a bearing b, negative or of a full turn or more, is
\* the arrow of b mod 360, and for n = b mod 360 it is '^' iff n >= 337.5
\* or n < 22.5, '>' iff 22.5 <= n < 157.5, 'v' iff 157.5 <= n < 202.5 and
\* '<' iff 202.5 <= n < 337.5 (bearings in tenths of a degree).
ArrowOfBearingModulo ==
    applied.fn = "getDirectionalArrow" /\ applied.returned =>
        LET n == applied.arg % FullTurn
            arrow == applied.result
        IN /\ arrow = getDirectionalArrow(n)
           /\ arrow = "^" <=> (n >= 3375 \/ n < 225)
           /\ arrow = ">" <=> (225 <= n /\ n < 1575)
           /\ arrow = "v" <=> (1575 <= n /\ n < 2025)
           /\ arrow = "<" <=> (2025 <= n /\ n < 3375)

\* the arrow of -22.5 degrees has been answered: north, as of 337.5
ArrowOfNegativeBearing ==
    /\ applied.fn = "getDirectionalArrow"
    /\ applied.returned
    /\ applied.arg = -225
    /\ applied.result = "^"

(***************************************************************************)
(* Properties of the location tick: the order of its stages.               *)
(***************************************************************************)
\* a step in which onLocationUpdate runs for a fix of a running navigation
\* that is not an arrival: the whole pipeline of processLocationUpdate runs
PipelineTick ==
    /\ navigationState.isNavigating
    /\ Def(navigationState.currentRoute)
    /\ navCmd' = navCmd /\ wpCmd' = wpCmd /\ connected'
    /\ \E l \in Locs : ~Arrives(l) /\ Tick(l)

AnnouncedAt ==
    [f \in 1..5 |->
        CASE f = 1 -> {500, 100}
          [] f = 2 -> {800, 300, 100}
          [] f = 3 -> {1000, 500, 200, 50}
          [] f = 4 -> {1500, 1000, 500, 200, 100, 50}
          [] f = 5 -> {2000, 1500, 1000, 500, 300, 200, 100, 50}]

\* C32: generateVoiceAnnouncement returns an announcement iff voice guidance
\* is enabled and the distance is less than 10 m from one of the distances
\* announced at the announcement-frequency setting (at those of 3, for a
\* setting outside the scale), and returns null otherwise.
AnnouncedIffNearThreshold ==
    applied.fn = "generateVoiceAnnouncement" /\ applied.returned =>
        LET d == applied.arg.distance
            f == applied.arg.settings.announcement_frequency
            near == \E t \in AnnouncedAt[IF f \in 1..5 THEN f ELSE 3] : t - 10 < d /\ d < t + 10
        IN IF applied.arg.settings.voice_guidance /\ near
           THEN Def(applied.result)
           ELSE applied.result = undefined

\* an announcement was returned 9 m short of the 300 m of setting 2
AnnouncedNineMetresShort ==
    /\ applied.fn = "generateVoiceAnnouncement"
    /\ applied.returned
    /\ applied.arg.distance = 291
    /\ applied.arg.settings.announcement_frequency = 2
    /\ Def(applied.result)

(***************************************************************************)
(* Properties of the session states.                                       *)
(***************************************************************************)
\* C33: in every reachable state a running navigation has the session
\* locked, and a locked session has a route stored: the session is idle
\* (unlocked), navigating (locked, with a route) or stopped or arrived
\* (locked, with a route, not navigating).
SessionStatesConsistent ==
    /\ navigationState.isNavigating => navigationState.sessionLocked
    /\ navigationState.sessionLocked => Def(navigationState.currentRoute)

\* an off-route recalculation resolved on a stopped session and put its
\* route in place
RecalculatedWhileStopped ==
    /\ emitted = <<"route_recalculated">>
    /\ navigationState.sessionLocked
    /\ ~navigationState.isNavigating
    /\ Def(navigationState.currentRoute)

(***************************************************************************)
(* Properties of restartSession and the requests in flight.                *)
(***************************************************************************)
\* C34: a route request made before restartSession that resolves after it
\* takes no effect: as long as no navigation has started since the last
\* restartSession, no route is stored and the session is unlocked.
\* It fails when an off-route recalculation (or the route request of an
\* addWaypoint) resolves after the restart: its route is put in place.
NoRouteBeforeStart ==
    startedSinceRestart = 0 =>
        /\ ~Def(navigationState.currentRoute)
        /\ ~navigationState.sessionLocked

\* the step subscribes the manager to the location stream
SubscriptionCreated ==
    /\ Def(locationUnsubscriber')
    /\ \/ locationUnsubscriber' # locationUnsubscriber
       \/ orphanHandlers' > orphanHandlers

\* C35: the delayed re-subscription scheduled by stopNavigation and by the
\* arrival never subscribes after a restartSession that came in between:
\* the manager subscribes to the location stream only when a navigation has
\* started since the last restartSession.
\* It fails when the callback runs after the restart: restartSession does
\* not cancel it.
NoSubscriptionBeforeStart ==
    [][SubscriptionCreated => startedSinceRestart' > 0]_vars

(***************************************************************************)
(* Properties of the step counters and of the displayed instruction.       *)
(***************************************************************************)
\* C36: whenever the session is locked, totalSteps is the length of the
\* instruction list and currentStepIndex is the instruction pointer plus
\* one, also right after an off-route recalculation or an addWaypoint has
\* put a new list in place and reset the pointer.
\* It fails there: both replace the list and reset the pointer and leave
\* the two counters as they were.
StepCountersFollowInstructions ==
    navigationState.sessionLocked =>
        /\ navigationState.totalSteps = Len(instructions)
        /\ navigationState.currentStepIndex = currentInstructionIndex + 1

\* C37: every navigation display sent to the display sink shows
\* instructions[pointer] of the route stored, never an instruction of a
\* route that has been replaced.
\* It fails for the display addWaypoint draws, and for every display drawn
\* between a replacement of the route and the next tick of the navigation:
\* the display shows currentInstruction, which the replacement leaves as it was.
DisplayShowsCurrentRoute ==
    \A i \in DOMAIN sink :
        sink[i].block = "display" =>
            sink[i].instruction = At(instructions, currentInstructionIndex)

(***************************************************************************)
(* Properties of the off-route recalculations in flight.                   *)
(***************************************************************************)
\* C38: at most one off-route recalculation is unresolved at any time,
\* whatever ticks (deviating, back within the threshold, deviating again)
\* come while it is.
\* It fails: a tick within the threshold clears the off-route flag, which
\* is all that keeps handleOffRoute from requesting again.
OneRecalculationPending == Len(recalculations) <= 1

(***************************************************************************)
(* Properties of a startNavigation that fails.                             *)
(***************************************************************************)
\* what the step returns when startNavigation resolves to false
FalseReturns ==
    {"startNavigation:false:location", "startNavigation:false:geocode",
     "startNavigation:false:route", "startNavigation:false:error"}

\* C39: whenever startNavigation resolves to false the session was not
\* started: isNavigating, sessionLocked and currentRoute are what they were
\* before the call, also when the failure is an exception thrown once the
\* route was obtained.
\* It fails for such an exception: the state of the new navigation is
\* assigned before the calls that may throw, and the catch block leaves it.
FailedStartLeavesSession ==
    [][returned' \in FalseReturns =>
          /\ navigationState'.isNavigating = navigationState.isNavigating
          /\ navigationState'.sessionLocked = navigationState.sessionLocked
          /\ navigationState'.currentRoute = navigationState.currentRoute]_vars

(***************************************************************************)
(* Properties of the arrival: once for a navigation.                       *)
(***************************************************************************)
\* C40: destination_reached is emitted at most once for a navigation.  A
\* step emits it once at most, and only on a running navigation, which it
\* ends; a step schedules a re-subscription only as it ends a running
\* navigation; and only a step that emits navigation_started makes a
\* navigation run.  So a fix within 30 m of the route's end that comes on a
\* stopped or arrived session emits nothing and schedules nothing.
DestinationReachedOnce ==
    [][/\ Occurrences(emitted', "destination_reached") <= 1
       /\ Occurrences(emitted', "destination_reached") = 1 =>
             navigationState.isNavigating /\ ~navigationState'.isNavigating
       /\ timeouts' > timeouts =>
             navigationState.isNavigating /\ ~navigationState'.isNavigating
       /\ ~navigationState.isNavigating /\ navigationState'.isNavigating =>
             Occurrences(emitted', "navigation_started") = 1]_vars

\* a fix within the destination threshold of the route's end has come on a
\* session that is not navigating any more, once the delayed
\* re-subscription has run: it was stored and shown, and nothing else
FixAtDestinationWhenEnded ==
    /\ navigationState.sessionLocked
    /\ ~navigationState.isNavigating
    /\ Def(navigationState.currentRoute)
    /\ navigationState.currentLocation = Some(111)
    /\ lastLocationUpdate # undefined
    /\ calculateDistance(111, Val(navigationState.currentRoute).endLocation)
          <= DESTINATION_THRESHOLD
    /\ locationUnsubscriber = Some("reduced")
    /\ timeouts = 0
    /\ emitted = <<>>
    /\ Len(sink) = 1
====
